---- MODULE Spec2Model ----
(***************************************************************************)
(* Tool registry and dispatch framework of mcp-authentik.                  *)
(*                                                                         *)
(* The model follows src/src/core/tools.ts (registerTool, sanitizeMessage, *)
(* sanitizeError) and the startup order of src/src/index.ts.  Text is      *)
(* modelled as sequences of one-character strings, so that the replacements*)
(* of the redactor act on characters as String.prototype.replaceAll and    *)
(* the two regular expressions do.                                         *)
(***************************************************************************)
EXTENDS Integers, Sequences, FiniteSets, TLC

VARIABLES
    config,       \* AppConfig built by loadConfig: accessTier, categories, token, url
    pc,           \* position of main(): "registering" or "serving"
    serverCalls,  \* the server.registerTool calls made so far, in order
    nOffered,     \* number of registerTool calls made so far
    lastOffer,    \* the last registerTool call: its options and what it returned
    lastResult,   \* outcome of the last invocation of a wrapped handler
    logs,         \* number of logger calls made so far
    called,       \* the register*Tools functions called so far, in order
    lastDispatch, \* outcome of the last invocation of a by-type handler
    startup,      \* what main's startup has read and met: env, connection, exit code
    facets,       \* AuthentikClient: per facet, how often it was built and whether read
    inflight      \* the invocations in flight, one per slot of the server

vars == <<config, pc, serverCalls, nOffered, lastOffer, lastResult, logs,
          called, lastDispatch, startup, facets, inflight>>

(***************************************************************************)
(* Bounds of the model.                                                    *)
(***************************************************************************)
MaxCalls == 2        \* registerTool calls explored per run
MaxPieces == 2       \* pieces a generated message is concatenated from

(***************************************************************************)
(* src/src/types/index.ts                                                  *)
(***************************************************************************)
AccessTier == {"read-only", "full"}

(***************************************************************************)
(* Optional values (a field that may be undefined or null) are sequences   *)
(* of length at most one.                                                  *)
(***************************************************************************)
None == <<>>
Some(x) == <<x>>

(***************************************************************************)
(* ToolRegistrationOptions, src/src/core/tools.ts lines 7-16.  The         *)
(* description and the input schema are passed through to the server       *)
(* untouched and are left out.  The handler is the descriptor itself: what *)
(* it does when called is chosen at the invocation.                        *)
(***************************************************************************)
ToolNames == {"authentik_users_list", "authentik_users_delete"}
CategoryNames == {"core", "flows"}
TagChoices == {None, Some(<<"destructive">>)}
NoHints == [readOnlyHint |-> None, destructiveHint |-> None, idempotentHint |-> None]
AnnotationChoices ==
    { None,
      Some([NoHints EXCEPT !.idempotentHint = Some(TRUE)]),
      Some([NoHints EXCEPT !.readOnlyHint = Some(TRUE), !.destructiveHint = Some(TRUE)]) }
ToolRegistrationOptions ==
    [name : ToolNames, accessTier : AccessTier, category : CategoryNames,
     tags : TagChoices, annotations : AnnotationChoices]

(***************************************************************************)
(* Array.prototype.includes on a sequence.                                 *)
(***************************************************************************)
includes(arr, x) == \E i \in 1..Len(arr) : arr[i] = x

(***************************************************************************)
(* Object spread { ...a, ...b } on annotation objects: a key set in b wins.*)
(***************************************************************************)
spread(a, b) ==
    [k \in DOMAIN a |-> IF b[k] # None THEN b[k] ELSE a[k]]

(***************************************************************************)
(* registerTool, src/src/core/tools.ts lines 18-70, as a function of the   *)
(* config and the options: what it returns and the calls it makes on the   *)
(* server (none or one).                                                   *)
(***************************************************************************)
\* Faulty variant: the explicit annotations are spread first, the derived hints last.
buildAnnotations_DerivedWins(options) ==
    LET derived ==
          [readOnlyHint |-> Some(options.accessTier = "read-only"),
           destructiveHint |->
               Some(IF options.tags # None
                    THEN includes(options.tags[1], "destructive")
                    ELSE FALSE),
           idempotentHint |-> None]
    IN  IF options.annotations = None THEN derived
        ELSE spread(options.annotations[1], derived)

buildAnnotations(options) ==
    LET derived ==
          [readOnlyHint |-> Some(options.accessTier = "read-only"),
           destructiveHint |->
               Some(IF options.tags # None
                    THEN includes(options.tags[1], "destructive")
                    ELSE FALSE),
           idempotentHint |-> None]
    IN  IF options.annotations = None THEN derived
        ELSE spread(derived, options.annotations[1])

\* Faulty variant: the tier gate is missing.
tierGateBlocks_Never(cfg, options) == FALSE

\* Faulty variant: the tier gate compares the two tiers the wrong way round.
tierGateBlocks_Swapped(cfg, options) ==
    cfg.accessTier = "full" /\ options.accessTier = "read-only"

tierGateBlocks(cfg, options) ==
    cfg.accessTier = "read-only" /\ options.accessTier = "full"

\* Faulty variant: the category filter only looks at the first allowed category.
categoryFilterBlocks_FirstOnly(cfg, options) ==
    /\ cfg.categories # None
    /\ Len(cfg.categories[1]) > 0
    /\ cfg.categories[1][1] # options.category

categoryFilterBlocks(cfg, options) ==
    cfg.categories # None /\ ~includes(cfg.categories[1], options.category)

\* Faulty variant: one gate passing is enough.
registerTool_EitherGate(cfg, options) ==
    IF tierGateBlocks(cfg, options) /\ categoryFilterBlocks(cfg, options)
    THEN [returned |-> FALSE, calls |-> <<>>]
    ELSE [returned |-> TRUE,
          calls |-> << [name |-> options.name,
                        annotations |-> buildAnnotations(options),
                        handler |-> options] >>]

\* Faulty variant: the category filter runs after the registration call.
registerTool_FilterAfterCall(cfg, options) ==
    IF tierGateBlocks(cfg, options)
    THEN [returned |-> FALSE, calls |-> <<>>]
    ELSE [returned |-> ~categoryFilterBlocks(cfg, options),
          calls |-> << [name |-> options.name,
                        annotations |-> buildAnnotations(options),
                        handler |-> options] >>]

registerTool(cfg, options) ==
    IF tierGateBlocks(cfg, options)
    THEN [returned |-> FALSE, calls |-> <<>>]
    ELSE IF categoryFilterBlocks(cfg, options)
    THEN [returned |-> FALSE, calls |-> <<>>]
    ELSE [returned |-> TRUE,
          calls |-> << [name |-> options.name,
                        annotations |-> buildAnnotations(options),
                        handler |-> options] >>]

(***************************************************************************)
(* Text.  A string is a sequence of one-character strings.                 *)
(***************************************************************************)
UpperCase == <<"A", "B", "C", "D", "E", "F", "G", "H", "I", "J", "K", "L", "M", "N", "O", "P", "Q", "R", "S", "T", "U", "V", "W", "X", "Y", "Z">>
LowerCase == <<"a", "b", "c", "d", "e", "f", "g", "h", "i", "j", "k", "l", "m", "n", "o", "p", "q", "r", "s", "t", "u", "v", "w", "x", "y", "z">>
Digits == <<"0", "1", "2", "3", "4", "5", "6", "7", "8", "9">>

toLowerCase(c) ==
    IF \E i \in 1..Len(UpperCase) : UpperCase[i] = c
    THEN LowerCase[CHOOSE i \in 1..Len(UpperCase) : UpperCase[i] = c]
    ELSE c

\* The class \s of a JavaScript regular expression, on the characters used.
isSpace(c) == c \in {" ", "\t", "\n"}

startsWithAt(s, i, pat) ==
    /\ i + Len(pat) - 1 <= Len(s)
    /\ \A k \in 1..Len(pat) : s[i + k - 1] = pat[k]

endsWith(s, suffix) ==
    /\ Len(suffix) <= Len(s)
    /\ startsWithAt(s, Len(s) - Len(suffix) + 1, suffix)

\* `${n}` for a non-negative integer.
RECURSIVE toDecimal(_)
toDecimal(n) ==
    IF n < 10 THEN <<Digits[n + 1]>>
    ELSE toDecimal(n \div 10) \o <<Digits[(n % 10) + 1]>>

\* Array.prototype.join on an array of strings.
RECURSIVE join(_, _)
join(items, sep) ==
    IF Len(items) = 0 THEN <<>>
    ELSE IF Len(items) = 1 THEN items[1]
    ELSE items[1] \o sep \o join(Tail(items), sep)

\* The string that a text spells.
RECURSIVE string(_)
string(text) ==
    IF Len(text) = 0 THEN ""
    ELSE IF Len(text) = 1 THEN text[1]
    ELSE LET half == Len(text) \div 2
         IN  string(SubSeq(text, 1, half)) \o string(SubSeq(text, half + 1, Len(text)))

\* String.prototype.replaceAll with a non-empty string pattern: the leftmost
\* occurrences, not overlapping, the replacement not scanned again.
\* The least element of a non-empty set of indices.
least(indices) == CHOOSE j \in indices : \A k \in indices : j <= k

RECURSIVE replaceAllFrom(_, _, _, _)
replaceAllFrom(s, i, pat, rep) ==
    LET hits == { j \in i..Len(s) : startsWithAt(s, j, pat) }
    IN  IF hits = {} THEN SubSeq(s, i, Len(s))
        ELSE SubSeq(s, i, least(hits) - 1) \o rep
                 \o replaceAllFrom(s, least(hits) + Len(pat), pat, rep)

replaceAll(s, pat, rep) == replaceAllFrom(s, 1, pat, rep)

(***************************************************************************)
(* The literals of src/src/core/tools.ts.                                  *)
(***************************************************************************)
REDACTED == <<"[", "R", "E", "D", "A", "C", "T", "E", "D", "]">>
AUTHENTIK_URL == <<"[", "A", "U", "T", "H", "E", "N", "T", "I", "K", "_", "U", "R", "L", "]">>
BearerRedacted == <<"B", "e", "a", "r", "e", "r", " ", "[", "R", "E", "D", "A", "C", "T", "E", "D", "]">>
AuthorizationRedacted == <<"A", "u", "t", "h", "o", "r", "i", "z", "a", "t", "i", "o", "n", ":", " ", "[", "R", "E", "D", "A", "C", "T", "E", "D", "]">>
BearerWord == <<"b", "e", "a", "r", "e", "r">>
AuthorizationWord == <<"a", "u", "t", "h", "o", "r", "i", "z", "a", "t", "i", "o", "n", ":">>
ErrorPrefix == <<"E", "r", "r", "o", "r", ":", " ">>
UnknownFetchError == <<"U", "n", "k", "n", "o", "w", "n", " ", "f", "e", "t", "c", "h", " ", "e", "r", "r", "o", "r">>
UnknownError == <<"A", "n", " ", "u", "n", "k", "n", "o", "w", "n", " ", "e", "r", "r", "o", "r", " ", "o", "c", "c", "u", "r", "r", "e", "d">>

(***************************************************************************)
(* The regular expressions /Bearer\s+\S+/gi and /Authorization:\s*\S+/gi   *)
(* (lines 89 and 92): a word matched without regard to case, then a run of *)
(* whitespace (at least minSpaces long), then a non-empty run of           *)
(* non-whitespace.  Both runs are greedy, and giving whitespace back never *)
(* helps, so a match at i exists exactly when the word is at i, the        *)
(* whitespace run after it is long enough and a non-whitespace character   *)
(* follows that run.  regexMatchEnd is the index after the match, 0 when   *)
(* there is no match at i.                                                 *)
(***************************************************************************)
wordAtIgnoreCase(s, i, word) ==
    /\ i + Len(word) - 1 <= Len(s)
    /\ \A k \in 1..Len(word) : toLowerCase(s[i + k - 1]) = word[k]

\* The index at which the run of whitespace (space = TRUE) or of
\* non-whitespace (space = FALSE) that starts at i ends: Len(s) + 1 when it
\* reaches the end of s.
skipWhile(s, i, space) ==
    least({ j \in i..(Len(s) + 1) : j > Len(s) \/ isSpace(s[j]) # space })

regexMatchEnd(s, i, word, minSpaces) ==
    IF ~wordAtIgnoreCase(s, i, word) THEN 0
    ELSE LET afterWord == i + Len(word)
             afterSpaces == skipWhile(s, afterWord, TRUE)
         IN  IF afterSpaces - afterWord < minSpaces \/ afterSpaces > Len(s)
             THEN 0
             ELSE skipWhile(s, afterSpaces, FALSE)

RECURSIVE regexReplaceFrom(_, _, _, _, _)
regexReplaceFrom(s, i, word, minSpaces, rep) ==
    LET hits == { j \in i..Len(s) : regexMatchEnd(s, j, word, minSpaces) > 0 }
    IN  IF hits = {} THEN SubSeq(s, i, Len(s))
        ELSE SubSeq(s, i, least(hits) - 1) \o rep
                 \o regexReplaceFrom(s, regexMatchEnd(s, least(hits), word, minSpaces),
                                     word, minSpaces, rep)

replaceBearer(s) == regexReplaceFrom(s, 1, BearerWord, 1, BearerRedacted)
replaceAuthorization(s) ==
    regexReplaceFrom(s, 1, AuthorizationWord, 0, AuthorizationRedacted)

(***************************************************************************)
(* sanitizeMessage, src/src/core/tools.ts lines 75-95, on a string.        *)
(***************************************************************************)
\* Faulty variant: the two patterns are applied only to a message that does
\* not hold the token.
sanitizeMessage_PatternsOnlyWithoutToken(message, cfg) ==
    LET s1 == replaceAll(message, cfg.token, REDACTED)
        s2 == replaceAll(s1, cfg.url, AUTHENTIK_URL)
    IN  IF s1 # message THEN s2
        ELSE replaceAuthorization(replaceBearer(s2))

sanitizeMessage(message, cfg) ==
    LET s1 == IF Len(cfg.token) > 0
              THEN replaceAll(message, cfg.token, REDACTED) ELSE message
        s2 == IF Len(cfg.url) > 0
              THEN replaceAll(s1, cfg.url, AUTHENTIK_URL) ELSE s1
        s3 == replaceBearer(s2)
    IN  replaceAuthorization(s3)

(***************************************************************************)
(* JSON.stringify of a string and of an object whose values are strings    *)
(* (line 107).                                                             *)
(***************************************************************************)
jsonEscape(c) ==
    IF c = "\"" THEN <<"\\", "\"">>
    ELSE IF c = "\\" THEN <<"\\", "\\">>
    ELSE IF c = "\t" THEN <<"\\", "t">>
    ELSE IF c = "\n" THEN <<"\\", "n">>
    ELSE <<c>>

RECURSIVE jsonEscapeFrom(_, _)
jsonEscapeFrom(s, i) ==
    LET hits == { j \in i..Len(s) : jsonEscape(s[j]) # <<s[j]>> }
    IN  IF hits = {} THEN SubSeq(s, i, Len(s))
        ELSE SubSeq(s, i, least(hits) - 1) \o jsonEscape(s[least(hits)])
                 \o jsonEscapeFrom(s, least(hits) + 1)

jsonEscapeAll(s) == jsonEscapeFrom(s, 1)

jsonString(s) == <<"\"">> \o jsonEscapeAll(s) \o <<"\"">>

RECURSIVE jsonMembers(_)
jsonMembers(entries) ==
    IF Len(entries) = 0 THEN <<>>
    ELSE jsonString(entries[1].key) \o <<":">> \o jsonString(entries[1].val)
         \o (IF Len(entries) > 1 THEN <<",">> ELSE <<>>)
         \o jsonMembers(Tail(entries))

jsonStringifyObject(entries) == <<"{">> \o jsonMembers(entries) \o <<"}">>

(***************************************************************************)
(* sanitizeError, src/src/core/tools.ts lines 97-129.  The result is       *)
(* either a string or the exception that escapes the function.             *)
(*                                                                         *)
(* A thrown value is one of                                                *)
(*   [kind |-> "ResponseError", response |-> optional                      *)
(*        [status, statusText, body]]                                      *)
(*   [kind |-> "FetchError", message |-> string,                           *)
(*        cause |-> optional [message |-> value]]                          *)
(*   [kind |-> "Error", message |-> value]                                 *)
(*   [kind |-> "NonError", value |-> value]                                *)
(* where a message value is [type |-> "string", s |-> text], or has type   *)
(* "undefined", "number" or "object" (not a string).  A response           *)
(* body is unreadable (json() rejects), a parsed value that is no object,  *)
(* or an object: a sequence of [key, val] entries in the body's order.     *)
(***************************************************************************)
Returned(text) == [threw |-> FALSE, text |-> text]
Threw == [threw |-> TRUE, text |-> <<>>]

\* sanitizeMessage called with a value of any type: a value without a
\* replaceAll method makes line 80 throw a TypeError.
callSanitizeMessage(value, cfg) ==
    IF value.type = "string" THEN Returned(sanitizeMessage(value.s, cfg))
    ELSE Threw

\* Lines 105-109: one "key: value" detail.  A value whose conversion to a
\* string throws has type "unrenderable".
renderable(val) == val.type # "unrenderable"

renderDetail(entry) ==
    entry.key \o <<":", " ">> \o
    (IF entry.val.type = "array" THEN join(entry.val.items, <<",", " ">>)
     ELSE IF entry.val.type = "object" THEN jsonStringifyObject(entry.val.entries)
     ELSE IF entry.val.type = "null" THEN <<"n", "u", "l", "l">>
     ELSE entry.val.s)

\* Faulty variant: the details are separated by ", ".
renderDetails_CommaSeparated(entries) ==
    join([i \in 1..Len(entries) |-> renderDetail(entries[i])], <<",", " ">>)

renderDetails(entries) ==
    join([i \in 1..Len(entries) |-> renderDetail(entries[i])], <<";", " ">>)

statusLine(response) ==
    toDecimal(response.status) \o <<" ">> \o response.statusText

\* Faulty variant: no try/catch around the reading of the body.
sanitizeResponseError_NoFallback(error, cfg) ==
    IF error.response = None THEN Threw
    ELSE LET response == error.response[1]
             body == response.body
         IN  IF body.kind = "unreadable" THEN Threw
             ELSE IF /\ body.kind = "object"
                     /\ \A i \in 1..Len(body.entries) : renderable(body.entries[i].val)
             THEN Returned(sanitizeMessage(
                      statusLine(response) \o <<":", " ">>
                          \o renderDetails(body.entries), cfg))
             ELSE Returned(sanitizeMessage(statusLine(response), cfg))

sanitizeResponseError(error, cfg) ==
    IF error.response = None THEN Threw
    ELSE LET response == error.response[1]
             body == response.body
         IN  IF /\ body.kind = "object"
                /\ \A i \in 1..Len(body.entries) : renderable(body.entries[i].val)
             THEN Returned(sanitizeMessage(
                      statusLine(response) \o <<":", " ">>
                          \o renderDetails(body.entries), cfg))
             ELSE Returned(sanitizeMessage(statusLine(response), cfg))

\* Faulty variant: without a cause message the FetchError's own message is
\* rendered.
sanitizeFetchError_UsesOwnMessage(error, cfg) ==
    IF error.cause = None \/ error.cause[1].message.type = "undefined"
    THEN Returned(sanitizeMessage(error.message, cfg))
    ELSE callSanitizeMessage(error.cause[1].message, cfg)

sanitizeFetchError(error, cfg) ==
    IF error.cause = None \/ error.cause[1].message.type = "undefined"
    THEN Returned(sanitizeMessage(UnknownFetchError, cfg))
    ELSE callSanitizeMessage(error.cause[1].message, cfg)

\* Faulty variant: a thrown string is rendered like an error message.
sanitizeError_EchoesNonError(error, cfg) ==
    IF error.kind = "ResponseError" THEN sanitizeResponseError(error, cfg)
    ELSE IF error.kind = "FetchError" THEN sanitizeFetchError(error, cfg)
    ELSE IF error.kind = "Error" THEN callSanitizeMessage(error.message, cfg)
    ELSE IF error.value.type = "string" THEN Returned(sanitizeMessage(error.value.s, cfg))
    ELSE Returned(UnknownError)

sanitizeError(error, cfg) ==
    IF error.kind = "ResponseError" THEN sanitizeResponseError(error, cfg)
    ELSE IF error.kind = "FetchError" THEN sanitizeFetchError(error, cfg)
    ELSE IF error.kind = "Error" THEN callSanitizeMessage(error.message, cfg)
    ELSE Returned(UnknownError)

(***************************************************************************)
(* The handler that registerTool registers (lines 55-67), given what the   *)
(* descriptor's handler does when awaited: it resolves with a string or    *)
(* throws.  The result is what the returned promise settles to.            *)
(***************************************************************************)
TextItem(text) == [type |-> "text", text |-> text]
Resolved(content, isError) ==
    [rejected |-> FALSE, content |-> content, isError |-> isError]
Rejected == [rejected |-> TRUE, content |-> <<>>, isError |-> None]

\* Faulty variant: no try/catch around the handler.
wrappedHandler_NoCatch(cfg, outcome) ==
    IF outcome.kind = "resolve"
    THEN Resolved(<<TextItem(outcome.value)>>, None)
    ELSE Rejected

\* Faulty variant: the handler's result is scrubbed like an error message.
wrappedHandler_ScrubsResult(cfg, outcome) ==
    IF outcome.kind = "resolve"
    THEN Resolved(<<TextItem(sanitizeMessage(outcome.value, cfg))>>, None)
    ELSE LET rendered == sanitizeError(outcome.error, cfg)
         IN  IF rendered.threw THEN Rejected
             ELSE Resolved(<<TextItem(ErrorPrefix \o rendered.text)>>, Some(TRUE))

wrappedHandler(cfg, outcome) ==
    IF outcome.kind = "resolve"
    THEN Resolved(<<TextItem(outcome.value)>>, None)
    ELSE LET rendered == sanitizeError(outcome.error, cfg)
         IN  IF rendered.threw THEN Rejected
             ELSE Resolved(<<TextItem(ErrorPrefix \o rendered.text)>>, Some(TRUE))

(***************************************************************************)
(* normalizeUrl, src/src/core/tools.ts lines 133-145: config.url is always *)
(* a normalized URL.                                                       *)
(***************************************************************************)
ApiV3 == <<"/", "a", "p", "i", "/", "v", "3">>
Api == <<"/", "a", "p", "i">>

RECURSIVE stripTrailingSlashes(_)
stripTrailingSlashes(url) ==
    IF Len(url) > 0 /\ url[Len(url)] = "/"
    THEN stripTrailingSlashes(SubSeq(url, 1, Len(url) - 1))
    ELSE url

dropSuffix(s, suffix) == SubSeq(s, 1, Len(s) - Len(suffix))

normalizeUrl(url) ==
    LET normalized == stripTrailingSlashes(url)
    IN  IF endsWith(normalized, ApiV3) THEN normalized
        ELSE IF endsWith(normalized, Api) THEN dropSuffix(normalized, Api) \o ApiV3
        ELSE normalized \o ApiV3

(***************************************************************************)
(* The configurations explored: what loadConfig (lines 169-203) can return.*)
(* categories is null (None) or the array parseCategories builds, which    *)
(* is empty for a value such as ",".                                       *)
(***************************************************************************)
Tokens == { <<"t", "0", "k">>, <<"s", "3", "B">> }
RawUrls == { <<"h", "t", "t", "p", ":", "/", "/", "a", "/">>, <<"h", "t", "t", "p", ":", "/", "/", "a", "/", "a", "p", "i">> }
Urls == { normalizeUrl(u) : u \in RawUrls }
AllowlistChoices == { None, Some(<<"core", "admin">>), Some(<<>>) }

RegistryConfigs ==
    [accessTier : AccessTier, categories : AllowlistChoices,
     token : { <<"t", "0", "k">> }, url : Urls]

ShimConfigs ==
    [accessTier : {"full"}, categories : {None}, token : Tokens, url : Urls]

(***************************************************************************)
(* What a descriptor's handler can do when it is awaited: resolve with a   *)
(* string or throw.  Messages are concatenations of at most MaxPieces      *)
(* pieces: the secrets, the words the redactor looks for, and other text.  *)
(***************************************************************************)
Pieces(cfg) ==
    { cfg.token, cfg.url,
      SubSeq(cfg.token, 1, Len(cfg.token) - 1),
      <<"B", "e", "a", "r", "e", "r", " ">>, <<"b", "e", "a", "r", "e", "r", " ", "x">>, <<"A", "u", "t", "h", "o", "r", "i", "z", "a", "t", "i", "o", "n", ":">>,
      <<" ">>, <<"x">> }

RECURSIVE Concats(_, _)
Concats(n, pieces) ==
    IF n = 0 THEN { <<>> }
    ELSE LET shorter == Concats(n - 1, pieces)
         IN  shorter \cup { m \o p : m \in shorter, p \in pieces }

Messages(cfg) == Concats(MaxPieces, Pieces(cfg))
ShortMessages(cfg) == Concats(1, Pieces(cfg))

StringValue(m) == [type |-> "string", s |-> m]
MessageValues(cfg) ==
    { StringValue(m) : m \in Messages(cfg) }
        \cup { [type |-> "undefined", s |-> <<>>], [type |-> "number", s |-> <<>>] }

BodyValue(type, s, items, entries) ==
    [type |-> type, s |-> s, items |-> items, entries |-> entries]
BodyValues(cfg) ==
    { BodyValue("string", m, <<>>, <<>>) : m \in ShortMessages(cfg) }
        \cup { BodyValue("array", <<>>, <<<<"T", "h", "i", "s", " ", "f", "i", "e", "l", "d", " ", "i", "s", " ", "r", "e", "q", "u", "i", "r", "e", "d", ".">>>>, <<>>),
               BodyValue("array", <<>>, <<cfg.token, <<"x">>>>, <<>>),
               BodyValue("object", <<>>, <<>>, <<[key |-> <<"k">>, val |-> cfg.token]>>),
               BodyValue("null", <<>>, <<>>, <<>>),
               BodyValue("unrenderable", <<>>, <<>>, <<>>) }
BodyEntries(cfg) ==
    [key : { <<"n", "a", "m", "e">>, <<"d", "e", "t", "a", "i", "l">> }, val : BodyValues(cfg)]
Body(kind, entries) == [kind |-> kind, entries |-> entries]
Bodies(cfg) ==
    { Body("unreadable", <<>>), Body("scalar", <<>>), Body("object", <<>>) }
        \cup { Body("object", <<e>>) : e \in BodyEntries(cfg) }
        \cup { Body("object", <<e, f>>) :
                   e \in BodyEntries(cfg),
                   f \in { g \in BodyEntries(cfg) : g.key = <<"d", "e", "t", "a", "i", "l">> /\ g.val.type = "string" } }
Responses(cfg) ==
    [status : {400}, statusText : { <<"B", "a", "d", " ", "R", "e", "q", "u", "e", "s", "t">> }, body : Bodies(cfg)]
        \cup [status : {503}, statusText : { cfg.url }, body : { Body("unreadable", <<>>) }]

ResponseErrors(cfg) ==
    { [kind |-> "ResponseError", response |-> r] :
          r \in { None } \cup { Some(x) : x \in Responses(cfg) } }
FetchErrors(cfg) ==
    { [kind |-> "FetchError", message |-> m, cause |-> c] :
          m \in { <<"x">>, cfg.token \o cfg.url },
          c \in { None } \cup { Some([message |-> v]) : v \in MessageValues(cfg) } }
GenericErrors(cfg) ==
    { [kind |-> "Error", message |-> v] : v \in MessageValues(cfg) }
NonErrors(cfg) ==
    { [kind |-> "NonError", value |-> v] :
          v \in { StringValue(m) : m \in ShortMessages(cfg) }
                  \cup { [type |-> "undefined", s |-> <<>>],
                         [type |-> "number", s |-> <<>>],
                         [type |-> "object", s |-> cfg.token] } }
ThrownValues(cfg) ==
    ResponseErrors(cfg) \cup FetchErrors(cfg) \cup GenericErrors(cfg) \cup NonErrors(cfg)

Resolve(value) == [kind |-> "resolve", value |-> value]
Throw(error) == [kind |-> "throw", error |-> error]
Outcomes(cfg) ==
    { Resolve(m) : m \in Messages(cfg) } \cup { Throw(e) : e \in ThrownValues(cfg) }

(***************************************************************************)
(* The state machine.  main (src/src/index.ts lines 26-50) has loaded the  *)
(* config, validated the connection and logged twice; it then registers    *)
(* tools on a fresh server (createServer), and after that startServer      *)
(* connects the transport and the server invokes registered handlers.      *)
(***************************************************************************)
\* The startup sequence is over: the connection was validated, which read
\* and built the admin facet (validateConnection, lines 407-410), and no
\* invocation is in flight.  env is kept only by SpecStartup, which starts
\* before loadConfig.
Started == [env |-> None, connection |-> Some("connected"), exitCode |-> None]

FacetNames ==
    {"adminApi", "authenticatorsApi", "coreApi", "cryptoApi", "enterpriseApi",
     "eventsApi", "flowsApi", "managedApi", "oauth2Api", "outpostsApi",
     "policiesApi", "propertymappingsApi", "providersApi", "racApi", "rbacApi",
     "rootApi", "schemaApi", "sourcesApi", "ssfApi", "stagesApi", "tenantsApi"}
NoFacets == [f \in FacetNames |-> [built |-> 0, read |-> FALSE]]

\* Faulty variant: the getter builds a new facet at every access.
getFacet_NoCache(fs, f) ==
    [fs EXCEPT ![f] = [built |-> fs[f].built + 1, read |-> TRUE]]

\* A facet's getter, `this._xApi ??= new XApi(this.config)` (lines 303-400):
\* the facets after one access to f.
getFacet(fs, f) ==
    [fs EXCEPT ![f] = [built |-> IF fs[f].built = 0 THEN 1 ELSE fs[f].built,
                       read |-> TRUE]]

FacetsAfterStartup == getFacet(NoFacets, "adminApi")

MaxInFlight == 2     \* invocations the server has in flight at a time
Slots == 1..MaxInFlight
NoInvocations == [slot \in Slots |-> None]

InitWith(configs) ==
    /\ config \in configs
    /\ pc = "registering"
    /\ serverCalls = <<>>
    /\ nOffered = 0
    /\ lastOffer = None
    /\ lastResult = None
    /\ logs = 2
    /\ called = <<>>
    /\ lastDispatch = None
    /\ startup = Started
    /\ facets = FacetsAfterStartup
    /\ inflight = NoInvocations

\* One call registerTool(server, config, options).
RegisterTool(options) ==
    /\ pc = "registering"
    /\ nOffered < MaxCalls
    /\ LET r == registerTool(config, options)
       IN  /\ serverCalls' = serverCalls \o r.calls
           /\ lastOffer' = Some([options |-> options, returned |-> r.returned])
    /\ nOffered' = nOffered + 1
    /\ UNCHANGED <<config, pc, lastResult, logs, called, lastDispatch, startup, facets, inflight>>

\* startServer, src/src/core/server.ts lines 20-24.
StartServer ==
    /\ pc = "registering"
    /\ pc' = "serving"
    /\ logs' = logs + 1
    /\ UNCHANGED <<config, serverCalls, nOffered, lastOffer, lastResult, called, lastDispatch, startup, facets, inflight>>

\* The server calls the handler of one of its registrations; the descriptor's
\* handler behind it does `outcome`.  lastResult holds the invocation until
\* the server has delivered the result.
Invoke ==
    /\ pc = "serving"
    /\ lastResult = None
    /\ \E i \in 1..Len(serverCalls) : \E outcome \in Outcomes(config) :
           lastResult' = Some([tool |-> i, outcome |-> outcome,
                               result |-> wrappedHandler(config, outcome)])
    /\ UNCHANGED <<config, pc, serverCalls, nOffered, lastOffer, logs, called, lastDispatch, startup, facets, inflight>>

\* The server hands the settled result back to its client.
Respond ==
    /\ pc = "serving"
    /\ lastResult # None
    /\ lastResult' = None
    /\ UNCHANGED <<config, pc, serverCalls, nOffered, lastOffer, logs, called, lastDispatch, startup, facets, inflight>>

(***************************************************************************)
(* Spec: the registry under every tier and allowlist, any descriptors.     *)
(***************************************************************************)
Init == InitWith(RegistryConfigs)

Next ==
    \/ \E options \in ToolRegistrationOptions : RegisterTool(options)
    \/ StartServer

Spec == Init /\ [][Next]_vars

(***************************************************************************)
(* SpecShim: the registered handlers under every handler outcome.          *)
(***************************************************************************)
ShimOptions ==
    { o \in ToolRegistrationOptions :
          /\ o.name = "authentik_users_list" /\ o.accessTier = "read-only"
          /\ o.category = "core"
          /\ o.tags = None /\ o.annotations = None }

InitShim == InitWith(ShimConfigs)

NextShim ==
    \/ \E options \in ShimOptions : RegisterTool(options)
    \/ StartServer
    \/ Invoke
    \/ Respond

SpecShim == InitShim /\ [][NextShim]_vars

(***************************************************************************)
(* The tool catalog: the descriptors that each register*Tools function     *)
(* passes to registerTool, in the order of its statements.  No descriptor  *)
(* of the catalog sets annotations.                                        *)
(***************************************************************************)
Tool(name, accessTier, category, tags) ==
    [name |-> name, accessTier |-> accessTier, category |-> category,
     tags |-> tags, annotations |-> None]

\* src/unnamed/part_003, lines 7-254: 11 descriptors.
registerUserTools ==
    << Tool("authentik_users_list", "read-only", "core", None),
       Tool("authentik_users_get", "read-only", "core", None),
       Tool("authentik_users_create", "full", "core", None),
       Tool("authentik_users_update", "full", "core", None),
       Tool("authentik_users_delete", "full", "core", Some(<<"destructive">>)),
       Tool("authentik_users_me", "read-only", "core", None),
       Tool("authentik_users_set_password", "full", "core", None),
       Tool("authentik_users_create_service_account", "full", "core", None),
       Tool("authentik_users_generate_recovery_link", "full", "core", None),
       Tool("authentik_users_send_recovery_email", "full", "core", None),
       Tool("authentik_users_list_paths", "read-only", "core", None) >>

\* src/unnamed/part_003, lines 262-430: 7 descriptors.
registerGroupTools ==
    << Tool("authentik_groups_list", "read-only", "core", None),
       Tool("authentik_groups_get", "read-only", "core", None),
       Tool("authentik_groups_create", "full", "core", None),
       Tool("authentik_groups_update", "full", "core", None),
       Tool("authentik_groups_delete", "full", "core", Some(<<"destructive">>)),
       Tool("authentik_groups_add_user", "full", "core", None),
       Tool("authentik_groups_remove_user", "full", "core", None) >>

\* src/unnamed/part_005, lines 7-344: 13 descriptors.
registerApplicationTools ==
    << Tool("authentik_apps_list", "read-only", "core", None),
       Tool("authentik_apps_get", "read-only", "core", None),
       Tool("authentik_apps_create", "full", "core", None),
       Tool("authentik_apps_update", "full", "core", None),
       Tool("authentik_apps_set_icon_url", "full", "core", None),
       Tool("authentik_apps_delete", "full", "core", Some(<<"destructive">>)),
       Tool("authentik_apps_check_access", "read-only", "core", None),
       Tool("authentik_apps_update_transactional", "full", "core", None),
       Tool("authentik_app_entitlements_list", "read-only", "core", None),
       Tool("authentik_app_entitlements_get", "read-only", "core", None),
       Tool("authentik_app_entitlements_create", "full", "core", None),
       Tool("authentik_app_entitlements_update", "full", "core", None),
       Tool("authentik_app_entitlements_delete", "full", "core", Some(<<"destructive">>)) >>

\* src/src/tools/tokens.ts, lines 7-173: 7 descriptors.
registerTokenTools ==
    << Tool("authentik_tokens_list", "read-only", "core", None),
       Tool("authentik_tokens_get", "read-only", "core", None),
       Tool("authentik_tokens_create", "full", "core", None),
       Tool("authentik_tokens_update", "full", "core", None),
       Tool("authentik_tokens_delete", "full", "core", Some(<<"destructive">>)),
       Tool("authentik_tokens_view_key", "full", "core", None),
       Tool("authentik_tokens_set_key", "full", "core", None) >>

\* src/src/tools/rbac.ts, lines 314-484: 6 descriptors.
registerBrandTools ==
    << Tool("authentik_brands_list", "read-only", "core", None),
       Tool("authentik_brands_get", "read-only", "core", None),
       Tool("authentik_brands_create", "full", "core", None),
       Tool("authentik_brands_update", "full", "core", None),
       Tool("authentik_brands_delete", "full", "core", Some(<<"destructive">>)),
       Tool("authentik_brands_current", "read-only", "core", None) >>

\* src/src/tools/admin.ts, lines 7-146: 8 descriptors.
registerAdminTools ==
    << Tool("authentik_admin_system_info", "read-only", "admin", None),
       Tool("authentik_admin_version", "read-only", "admin", None),
       Tool("authentik_admin_settings_get", "read-only", "admin", None),
       Tool("authentik_admin_settings_update", "full", "admin", None),
       Tool("authentik_admin_apps", "read-only", "admin", None),
       Tool("authentik_admin_models", "read-only", "admin", None),
       Tool("authentik_admin_version_history", "read-only", "admin", None),
       Tool("authentik_admin_system_task_trigger", "full", "admin", None) >>

\* Faulty variant: the retry tool is declared read-only.
registerTaskTools_RetryReadOnly ==
    << Tool("authentik_tasks_list", "read-only", "events", None),
       Tool("authentik_tasks_get", "read-only", "events", None),
       Tool("authentik_tasks_retry", "read-only", "events", None) >>

\* src/unnamed/part_004, lines 8-79: 3 descriptors.
registerTaskTools ==
    << Tool("authentik_tasks_list", "read-only", "events", None),
       Tool("authentik_tasks_get", "read-only", "events", None),
       Tool("authentik_tasks_retry", "full", "events", None) >>

\* src/unnamed/part_007, lines 573-590: 1 descriptors.
registerRootTools ==
    << Tool("authentik_root_config", "read-only", "root", None) >>

\* src/src/tools/flows.ts, lines 7-360: 15 descriptors.
registerFlowTools ==
    << Tool("authentik_flows_list", "read-only", "flows", None),
       Tool("authentik_flows_get", "read-only", "flows", None),
       Tool("authentik_flows_create", "full", "flows", None),
       Tool("authentik_flows_update", "full", "flows", None),
       Tool("authentik_flows_delete", "full", "flows", Some(<<"destructive">>)),
       Tool("authentik_flows_diagram", "read-only", "flows", None),
       Tool("authentik_flows_export", "read-only", "flows", None),
       Tool("authentik_flows_import", "full", "flows", None),
       Tool("authentik_flows_cache_info", "read-only", "flows", None),
       Tool("authentik_flows_cache_clear", "full", "flows", None),
       Tool("authentik_flows_bindings_list", "read-only", "flows", None),
       Tool("authentik_flows_bindings_get", "read-only", "flows", None),
       Tool("authentik_flows_bindings_create", "full", "flows", None),
       Tool("authentik_flows_bindings_update", "full", "flows", None),
       Tool("authentik_flows_bindings_delete", "full", "flows", Some(<<"destructive">>)) >>

\* src/src/tools/stages.ts, lines 106-571: 19 descriptors.
registerStageTools ==
    << Tool("authentik_stages_list", "read-only", "stages", None),
       Tool("authentik_stages_get", "read-only", "stages", None),
       Tool("authentik_stages_delete", "full", "stages", Some(<<"destructive">>)),
       Tool("authentik_stages_types_list", "read-only", "stages", None),
       Tool("authentik_stages_by_type_list", "read-only", "stages", None),
       Tool("authentik_stages_by_type_get", "read-only", "stages", None),
       Tool("authentik_stages_by_type_create", "full", "stages", None),
       Tool("authentik_stages_by_type_update", "full", "stages", None),
       Tool("authentik_stages_by_type_delete", "full", "stages", Some(<<"destructive">>)),
       Tool("authentik_invitations_list", "read-only", "stages", None),
       Tool("authentik_invitations_get", "read-only", "stages", None),
       Tool("authentik_invitations_create", "full", "stages", None),
       Tool("authentik_invitations_update", "full", "stages", None),
       Tool("authentik_invitations_delete", "full", "stages", Some(<<"destructive">>)),
       Tool("authentik_prompts_list", "read-only", "stages", None),
       Tool("authentik_prompts_get", "read-only", "stages", None),
       Tool("authentik_prompts_create", "full", "stages", None),
       Tool("authentik_prompts_update", "full", "stages", None),
       Tool("authentik_prompts_delete", "full", "stages", Some(<<"destructive">>)) >>

\* src/src/tools/providers.ts, lines 57-304: 11 descriptors.
registerProviderTools ==
    << Tool("authentik_providers_list", "read-only", "providers", None),
       Tool("authentik_providers_get", "read-only", "providers", None),
       Tool("authentik_providers_delete", "full", "providers", Some(<<"destructive">>)),
       Tool("authentik_providers_types_list", "read-only", "providers", None),
       Tool("authentik_providers_by_type_list", "read-only", "providers", None),
       Tool("authentik_providers_by_type_get", "read-only", "providers", None),
       Tool("authentik_providers_by_type_create", "full", "providers", None),
       Tool("authentik_providers_by_type_update", "full", "providers", None),
       Tool("authentik_providers_by_type_delete", "full", "providers", Some(<<"destructive">>)),
       Tool("authentik_providers_oauth2_setup_urls", "read-only", "providers", None),
       Tool("authentik_providers_saml_metadata", "read-only", "providers", None) >>

\* src/src/tools/rac.ts, lines 262-693: 19 descriptors.
registerPolicyTools ==
    << Tool("authentik_policies_list", "read-only", "policies", None),
       Tool("authentik_policies_get", "read-only", "policies", None),
       Tool("authentik_policies_delete", "full", "policies", Some(<<"destructive">>)),
       Tool("authentik_policies_types_list", "read-only", "policies", None),
       Tool("authentik_policies_test", "read-only", "policies", None),
       Tool("authentik_policies_cache_info", "read-only", "policies", None),
       Tool("authentik_policies_cache_clear", "full", "policies", None),
       Tool("authentik_policies_by_type_list", "read-only", "policies", None),
       Tool("authentik_policies_by_type_get", "read-only", "policies", None),
       Tool("authentik_policies_by_type_create", "full", "policies", None),
       Tool("authentik_policies_by_type_update", "full", "policies", None),
       Tool("authentik_policies_by_type_delete", "full", "policies", Some(<<"destructive">>)),
       Tool("authentik_policy_bindings_list", "read-only", "policies", None),
       Tool("authentik_policy_bindings_get", "read-only", "policies", None),
       Tool("authentik_policy_bindings_create", "full", "policies", None),
       Tool("authentik_policy_bindings_update", "full", "policies", None),
       Tool("authentik_policy_bindings_delete", "full", "policies", Some(<<"destructive">>)),
       Tool("authentik_reputation_scores_list", "read-only", "policies", None),
       Tool("authentik_reputation_scores_delete", "full", "policies", Some(<<"destructive">>)) >>

\* src/src/tools/rbac.ts, lines 532-776: 10 descriptors.
registerSourceTools ==
    << Tool("authentik_sources_list", "read-only", "sources", None),
       Tool("authentik_sources_get", "read-only", "sources", None),
       Tool("authentik_sources_delete", "full", "sources", Some(<<"destructive">>)),
       Tool("authentik_sources_types_list", "read-only", "sources", None),
       Tool("authentik_sources_by_type_list", "read-only", "sources", None),
       Tool("authentik_sources_by_type_get", "read-only", "sources", None),
       Tool("authentik_sources_by_type_create", "full", "sources", None),
       Tool("authentik_sources_by_type_update", "full", "sources", None),
       Tool("authentik_sources_by_type_delete", "full", "sources", Some(<<"destructive">>)),
       Tool("authentik_sources_user_connections_list", "read-only", "sources", None) >>

\* src/unnamed/part_006, lines 70-310: 10 descriptors.
registerPropertyMappingTools ==
    << Tool("authentik_property_mappings_list", "read-only", "property-mappings", None),
       Tool("authentik_property_mappings_get", "read-only", "property-mappings", None),
       Tool("authentik_property_mappings_delete", "full", "property-mappings", Some(<<"destructive">>)),
       Tool("authentik_property_mappings_types_list", "read-only", "property-mappings", None),
       Tool("authentik_property_mappings_test", "full", "property-mappings", None),
       Tool("authentik_property_mappings_by_type_list", "read-only", "property-mappings", None),
       Tool("authentik_property_mappings_by_type_get", "read-only", "property-mappings", None),
       Tool("authentik_property_mappings_by_type_create", "full", "property-mappings", None),
       Tool("authentik_property_mappings_by_type_update", "full", "property-mappings", None),
       Tool("authentik_property_mappings_by_type_delete", "full", "property-mappings", Some(<<"destructive">>)) >>

\* src/src/tools/rbac.ts, lines 7-306: 12 descriptors.
registerRbacTools ==
    << Tool("authentik_rbac_roles_list", "read-only", "rbac", None),
       Tool("authentik_rbac_roles_get", "read-only", "rbac", None),
       Tool("authentik_rbac_roles_create", "full", "rbac", None),
       Tool("authentik_rbac_roles_update", "full", "rbac", None),
       Tool("authentik_rbac_roles_delete", "full", "rbac", Some(<<"destructive">>)),
       Tool("authentik_rbac_permissions_list", "read-only", "rbac", None),
       Tool("authentik_rbac_permissions_by_role_list", "read-only", "rbac", None),
       Tool("authentik_rbac_permissions_by_role_assign", "full", "rbac", None),
       Tool("authentik_rbac_permissions_by_role_unassign", "full", "rbac", None),
       Tool("authentik_rbac_permissions_by_user_list", "read-only", "rbac", None),
       Tool("authentik_rbac_permissions_by_user_assign", "full", "rbac", None),
       Tool("authentik_rbac_permissions_by_user_unassign", "full", "rbac", None) >>

\* src/unnamed/part_008, lines 7-483: 21 descriptors.
registerEventTools ==
    << Tool("authentik_events_list", "read-only", "events", None),
       Tool("authentik_events_get", "read-only", "events", None),
       Tool("authentik_events_create", "full", "events", None),
       Tool("authentik_events_actions_list", "read-only", "events", None),
       Tool("authentik_events_top_per_user", "read-only", "events", None),
       Tool("authentik_events_volume", "read-only", "events", None),
       Tool("authentik_events_rules_list", "read-only", "events", None),
       Tool("authentik_events_rules_get", "read-only", "events", None),
       Tool("authentik_events_rules_create", "full", "events", None),
       Tool("authentik_events_rules_update", "full", "events", None),
       Tool("authentik_events_rules_delete", "full", "events", Some(<<"destructive">>)),
       Tool("authentik_events_transports_list", "read-only", "events", None),
       Tool("authentik_events_transports_get", "read-only", "events", None),
       Tool("authentik_events_transports_create", "full", "events", None),
       Tool("authentik_events_transports_update", "full", "events", None),
       Tool("authentik_events_transports_delete", "full", "events", Some(<<"destructive">>)),
       Tool("authentik_events_transports_test", "full", "events", None),
       Tool("authentik_events_notifications_list", "read-only", "events", None),
       Tool("authentik_events_notifications_update", "full", "events", None),
       Tool("authentik_events_notifications_delete", "full", "events", Some(<<"destructive">>)),
       Tool("authentik_events_notifications_mark_all_seen", "full", "events", None) >>

\* src/unnamed/part_002, lines 7-178: 8 descriptors.
registerCryptoTools ==
    << Tool("authentik_crypto_list", "read-only", "crypto", None),
       Tool("authentik_crypto_get", "read-only", "crypto", None),
       Tool("authentik_crypto_create", "full", "crypto", None),
       Tool("authentik_crypto_update", "full", "crypto", None),
       Tool("authentik_crypto_delete", "full", "crypto", Some(<<"destructive">>)),
       Tool("authentik_crypto_generate", "full", "crypto", None),
       Tool("authentik_crypto_view_certificate", "read-only", "crypto", None),
       Tool("authentik_crypto_view_private_key", "full", "crypto", None) >>

\* src/unnamed/part_007, lines 75-412: 15 descriptors.
registerOutpostTools ==
    << Tool("authentik_outposts_list", "read-only", "outposts", None),
       Tool("authentik_outposts_get", "read-only", "outposts", None),
       Tool("authentik_outposts_create", "full", "outposts", None),
       Tool("authentik_outposts_update", "full", "outposts", None),
       Tool("authentik_outposts_delete", "full", "outposts", Some(<<"destructive">>)),
       Tool("authentik_outposts_health", "read-only", "outposts", None),
       Tool("authentik_outposts_default_settings", "read-only", "outposts", None),
       Tool("authentik_outposts_service_connections_list", "read-only", "outposts", None),
       Tool("authentik_outposts_service_connections_state", "read-only", "outposts", None),
       Tool("authentik_outposts_service_connections_types", "read-only", "outposts", None),
       Tool("authentik_outposts_docker_create", "full", "outposts", None),
       Tool("authentik_outposts_docker_update", "full", "outposts", None),
       Tool("authentik_outposts_kubernetes_create", "full", "outposts", None),
       Tool("authentik_outposts_kubernetes_update", "full", "outposts", None),
       Tool("authentik_outposts_service_connections_delete", "full", "outposts", Some(<<"destructive">>)) >>

\* Faulty variant: the destructive apply tool is declared read-only.
registerManagedTools_ApplyReadOnly ==
    << Tool("authentik_blueprints_list", "read-only", "managed", None),
       Tool("authentik_blueprints_get", "read-only", "managed", None),
       Tool("authentik_blueprints_create", "full", "managed", None),
       Tool("authentik_blueprints_update", "full", "managed", None),
       Tool("authentik_blueprints_delete", "full", "managed", Some(<<"destructive">>)),
       Tool("authentik_blueprints_available", "read-only", "managed", None),
       Tool("authentik_blueprints_apply", "read-only", "managed", Some(<<"destructive">>)) >>

\* src/src/tools/managed.ts, lines 7-159: 7 descriptors.
registerManagedTools ==
    << Tool("authentik_blueprints_list", "read-only", "managed", None),
       Tool("authentik_blueprints_get", "read-only", "managed", None),
       Tool("authentik_blueprints_create", "full", "managed", None),
       Tool("authentik_blueprints_update", "full", "managed", None),
       Tool("authentik_blueprints_delete", "full", "managed", Some(<<"destructive">>)),
       Tool("authentik_blueprints_available", "read-only", "managed", None),
       Tool("authentik_blueprints_apply", "full", "managed", Some(<<"destructive">>)) >>

\* src/src/tools/managed.ts, lines 167-363: 9 descriptors.
registerOauth2Tools ==
    << Tool("authentik_oauth2_access_tokens_list", "read-only", "oauth2", None),
       Tool("authentik_oauth2_access_tokens_get", "read-only", "oauth2", None),
       Tool("authentik_oauth2_access_tokens_delete", "full", "oauth2", Some(<<"destructive">>)),
       Tool("authentik_oauth2_auth_codes_list", "read-only", "oauth2", None),
       Tool("authentik_oauth2_auth_codes_get", "read-only", "oauth2", None),
       Tool("authentik_oauth2_auth_codes_delete", "full", "oauth2", Some(<<"destructive">>)),
       Tool("authentik_oauth2_refresh_tokens_list", "read-only", "oauth2", None),
       Tool("authentik_oauth2_refresh_tokens_get", "read-only", "oauth2", None),
       Tool("authentik_oauth2_refresh_tokens_delete", "full", "oauth2", Some(<<"destructive">>)) >>

\* src/unnamed/part_007, lines 451-566: 5 descriptors.
registerAuthenticatorTools ==
    << Tool("authentik_authenticators_list", "read-only", "authenticators", None),
       Tool("authentik_authenticators_admin_by_type_list", "read-only", "authenticators", None),
       Tool("authentik_authenticators_admin_by_type_get", "read-only", "authenticators", None),
       Tool("authentik_authenticators_admin_by_type_delete", "full", "authenticators", Some(<<"destructive">>)),
       Tool("authentik_authenticators_user_by_type_list", "read-only", "authenticators", None) >>

\* src/src/tools/flows.ts, lines 368-508: 8 descriptors.
registerEnterpriseTools ==
    << Tool("authentik_enterprise_license_list", "read-only", "enterprise", None),
       Tool("authentik_enterprise_license_get", "read-only", "enterprise", None),
       Tool("authentik_enterprise_license_create", "full", "enterprise", None),
       Tool("authentik_enterprise_license_update", "full", "enterprise", None),
       Tool("authentik_enterprise_license_delete", "full", "enterprise", Some(<<"destructive">>)),
       Tool("authentik_enterprise_license_summary", "read-only", "enterprise", None),
       Tool("authentik_enterprise_license_forecast", "read-only", "enterprise", None),
       Tool("authentik_enterprise_install_id", "read-only", "enterprise", None) >>

\* src/src/tools/rac.ts, lines 7-207: 8 descriptors.
registerRacTools ==
    << Tool("authentik_rac_endpoints_list", "read-only", "rac", None),
       Tool("authentik_rac_endpoints_get", "read-only", "rac", None),
       Tool("authentik_rac_endpoints_create", "full", "rac", None),
       Tool("authentik_rac_endpoints_update", "full", "rac", None),
       Tool("authentik_rac_endpoints_delete", "full", "rac", Some(<<"destructive">>)),
       Tool("authentik_rac_connection_tokens_list", "read-only", "rac", None),
       Tool("authentik_rac_connection_tokens_get", "read-only", "rac", None),
       Tool("authentik_rac_connection_tokens_delete", "full", "rac", Some(<<"destructive">>)) >>

\* Faulty variant: the ssf family also holds a full-tier tool.
registerSsfTools_WithFullTool ==
    << Tool("authentik_ssf_streams_list", "read-only", "ssf", None),
       Tool("authentik_ssf_streams_get", "read-only", "ssf", None),
       Tool("authentik_ssf_streams_delete", "full", "ssf", Some(<<"destructive">>)) >>

\* src/unnamed/part_001, lines 7-57: 2 descriptors.
registerSsfTools ==
    << Tool("authentik_ssf_streams_list", "read-only", "ssf", None),
       Tool("authentik_ssf_streams_get", "read-only", "ssf", None) >>

\* Faulty variant: the first tenant tool takes the name of a tool of
\* registerRootTools.
registerTenantTools_ReusedName ==
    << Tool("authentik_root_config", "read-only", "tenants", None),
       Tool("authentik_tenants_get", "read-only", "tenants", None),
       Tool("authentik_tenants_create", "full", "tenants", None),
       Tool("authentik_tenants_update", "full", "tenants", None),
       Tool("authentik_tenants_delete", "full", "tenants", Some(<<"destructive">>)),
       Tool("authentik_tenants_create_admin_group", "full", "tenants", None),
       Tool("authentik_tenants_create_recovery_key", "full", "tenants", None),
       Tool("authentik_tenants_domains_list", "read-only", "tenants", None),
       Tool("authentik_tenants_domains_create", "full", "tenants", None),
       Tool("authentik_tenants_domains_delete", "full", "tenants", Some(<<"destructive">>)) >>

\* src/unnamed/part_009, lines 7-227: 10 descriptors.
registerTenantTools ==
    << Tool("authentik_tenants_list", "read-only", "tenants", None),
       Tool("authentik_tenants_get", "read-only", "tenants", None),
       Tool("authentik_tenants_create", "full", "tenants", None),
       Tool("authentik_tenants_update", "full", "tenants", None),
       Tool("authentik_tenants_delete", "full", "tenants", Some(<<"destructive">>)),
       Tool("authentik_tenants_create_admin_group", "full", "tenants", None),
       Tool("authentik_tenants_create_recovery_key", "full", "tenants", None),
       Tool("authentik_tenants_domains_list", "read-only", "tenants", None),
       Tool("authentik_tenants_domains_create", "full", "tenants", None),
       Tool("authentik_tenants_domains_delete", "full", "tenants", Some(<<"destructive">>)) >>

\* registerAllTools, src/unnamed/part_007 lines 33-67: the register*Tools
\* functions in the order in which it calls them.
registerAllTools ==
    << [fn |-> "registerUserTools", tools |-> registerUserTools],
       [fn |-> "registerGroupTools", tools |-> registerGroupTools],
       [fn |-> "registerApplicationTools", tools |-> registerApplicationTools],
       [fn |-> "registerTokenTools", tools |-> registerTokenTools],
       [fn |-> "registerBrandTools", tools |-> registerBrandTools],
       [fn |-> "registerAdminTools", tools |-> registerAdminTools],
       [fn |-> "registerTaskTools", tools |-> registerTaskTools],
       [fn |-> "registerRootTools", tools |-> registerRootTools],
       [fn |-> "registerFlowTools", tools |-> registerFlowTools],
       [fn |-> "registerStageTools", tools |-> registerStageTools],
       [fn |-> "registerProviderTools", tools |-> registerProviderTools],
       [fn |-> "registerPolicyTools", tools |-> registerPolicyTools],
       [fn |-> "registerSourceTools", tools |-> registerSourceTools],
       [fn |-> "registerPropertyMappingTools", tools |-> registerPropertyMappingTools],
       [fn |-> "registerRbacTools", tools |-> registerRbacTools],
       [fn |-> "registerEventTools", tools |-> registerEventTools],
       [fn |-> "registerCryptoTools", tools |-> registerCryptoTools],
       [fn |-> "registerOutpostTools", tools |-> registerOutpostTools],
       [fn |-> "registerManagedTools", tools |-> registerManagedTools],
       [fn |-> "registerOauth2Tools", tools |-> registerOauth2Tools],
       [fn |-> "registerAuthenticatorTools", tools |-> registerAuthenticatorTools],
       [fn |-> "registerEnterpriseTools", tools |-> registerEnterpriseTools],
       [fn |-> "registerRacTools", tools |-> registerRacTools],
       [fn |-> "registerSsfTools", tools |-> registerSsfTools],
       [fn |-> "registerTenantTools", tools |-> registerTenantTools] >>

Catalog == UNION { { f.tools[i] : i \in DOMAIN f.tools } :
                   f \in { registerAllTools[k] : k \in DOMAIN registerAllTools } }
Categories == { t.category : t \in Catalog }

(***************************************************************************)
(* The body of a register*Tools function: one registerTool(server, config, *)
(* descriptor) statement after the other on the same server.  The result   *)
(* is the server's registrations after the last statement.                 *)
(***************************************************************************)
\* Faulty variant: only descriptors of the category of the server's first
\* registration are registered.
registerEach_SameCategoryOnly(server, cfg, tools) ==
    LET visible(t) == registerTool(cfg, t).returned
        admitted == SelectSeq(tools, visible)
        first == IF server # <<>> THEN server[1].handler.category
                 ELSE IF admitted # <<>> THEN admitted[1].category
                 ELSE ""
        same(t) == t.category = first
        kept == SelectSeq(admitted, same)
    IN  server \o [i \in 1..Len(kept) |-> registerTool(cfg, kept[i]).calls[1]]

registerEach(server, cfg, tools) ==
    LET visible(t) == registerTool(cfg, t).returned
        admitted == SelectSeq(tools, visible)
    IN  server \o [i \in 1..Len(admitted) |-> registerTool(cfg, admitted[i]).calls[1]]

\* One call of a register*Tools function by registerAllTools.
CallRegisterFunction(f) ==
    /\ pc = "registering"
    /\ serverCalls' = registerEach(serverCalls, config, f.tools)
    /\ nOffered' = nOffered + Len(f.tools)
    /\ lastOffer' =
           LET last == f.tools[Len(f.tools)]
           IN  Some([options |-> last, returned |-> registerTool(config, last).returned])
    /\ called' = Append(called, f.fn)
    /\ UNCHANGED <<config, pc, lastResult, logs, lastDispatch, startup, facets, inflight>>

\* The next statement of registerAllTools.
RegisterAllToolsStep ==
    /\ Len(called) < Len(registerAllTools)
    /\ CallRegisterFunction(registerAllTools[Len(called) + 1])

\* Faulty variant: startServer does not wait for registerAllTools.
StartServerAfterCatalog_AtAnyTime == StartServer

\* main, src/src/index.ts lines 43-47: startServer follows registerAllTools.
StartServerAfterCatalog ==
    /\ Len(called) = Len(registerAllTools)
    /\ StartServer

(***************************************************************************)
(* SpecCatalog: registerAllTools under every tier and a range of           *)
(* allowlists: none, the empty one, each category alone, pairs, and a      *)
(* name that is no category.                                               *)
(***************************************************************************)
CatalogAllowlists ==
    { None, Some(<<>>), Some(<<"core", "admin">>), Some(<<"ssf", "root">>),
      Some(<<"ssf", "core">>), Some(<<"bogus">>) }
        \cup { Some(<<c>>) : c \in Categories }

CatalogConfigs ==
    [accessTier : AccessTier, categories : CatalogAllowlists,
     token : { <<"t", "0", "k">> }, url : Urls]

InitCatalog == InitWith(CatalogConfigs)

NextCatalog ==
    \/ RegisterAllToolsStep
    \/ StartServerAfterCatalog

SpecCatalog == InitCatalog /\ [][NextCatalog]_vars

(***************************************************************************)
(* SpecOrder: some register*Tools functions called in every order, each    *)
(* once.                                                                   *)
(***************************************************************************)
PermutedFunctions ==
    { f \in { registerAllTools[k] : k \in DOMAIN registerAllTools } :
          f.fn \in { "registerSsfTools", "registerRootTools",
                     "registerTaskTools", "registerAuthenticatorTools" } }

OrderConfigs ==
    [accessTier : AccessTier,
     categories : { None, Some(<<>>), Some(<<"ssf", "events">>) },
     token : { <<"t", "0", "k">> }, url : Urls]

InitOrder == InitWith(OrderConfigs)

CallInAnyOrder ==
    \E f \in PermutedFunctions :
        /\ ~includes(called, f.fn)
        /\ CallRegisterFunction(f)

NextOrder ==
    \/ CallInAnyOrder
    \/ StartServer

SpecOrder == InitOrder /\ [][NextOrder]_vars

(***************************************************************************)
(* The five dispatch tables: for each discriminator the fragment of the    *)
(* client method's name and the body keys of create and update.            *)
(***************************************************************************)
\* src/src/tools/stages.ts
STAGE_TYPES ==
    << "authenticator_duo", "authenticator_email",
       "authenticator_endpoint_gdtc", "authenticator_sms",
       "authenticator_static", "authenticator_totp",
       "authenticator_validate", "authenticator_webauthn", "captcha",
       "consent", "deny", "dummy", "email", "identification", "invitation",
       "mtls", "password", "prompt", "redirect", "source", "user_delete",
       "user_login", "user_logout", "user_write" >>

STAGE_TYPE_SDK_PREFIX ==
    [ authenticator_duo |-> "AuthenticatorDuo",
      authenticator_email |-> "AuthenticatorEmail",
      authenticator_endpoint_gdtc |-> "AuthenticatorEndpointGdtc",
      authenticator_sms |-> "AuthenticatorSms",
      authenticator_static |-> "AuthenticatorStatic",
      authenticator_totp |-> "AuthenticatorTotp",
      authenticator_validate |-> "AuthenticatorValidate",
      authenticator_webauthn |-> "AuthenticatorWebauthn",
      captcha |-> "Captcha",
      consent |-> "Consent",
      deny |-> "Deny",
      dummy |-> "Dummy",
      email |-> "Email",
      identification |-> "Identification",
      invitation |-> "InvitationStages",
      mtls |-> "Mtls",
      password |-> "Password",
      prompt |-> "PromptStages",
      redirect |-> "Redirect",
      source |-> "Source",
      user_delete |-> "UserDelete",
      user_login |-> "UserLogin",
      user_logout |-> "UserLogout",
      user_write |-> "UserWrite" ]

STAGE_TYPE_REQUEST_KEY ==
    [ authenticator_duo |-> "authenticatorDuoStageRequest",
      authenticator_email |-> "authenticatorEmailStageRequest",
      authenticator_endpoint_gdtc |-> "authenticatorEndpointGDTCStageRequest",
      authenticator_sms |-> "authenticatorSMSStageRequest",
      authenticator_static |-> "authenticatorStaticStageRequest",
      authenticator_totp |-> "authenticatorTOTPStageRequest",
      authenticator_validate |-> "authenticatorValidateStageRequest",
      authenticator_webauthn |-> "authenticatorWebAuthnStageRequest",
      captcha |-> "captchaStageRequest",
      consent |-> "consentStageRequest",
      deny |-> "denyStageRequest",
      dummy |-> "dummyStageRequest",
      email |-> "emailStageRequest",
      identification |-> "identificationStageRequest",
      invitation |-> "invitationStageRequest",
      mtls |-> "mutualTLSStageRequest",
      password |-> "passwordStageRequest",
      prompt |-> "promptStageRequest",
      redirect |-> "redirectStageRequest",
      source |-> "sourceStageRequest",
      user_delete |-> "userDeleteStageRequest",
      user_login |-> "userLoginStageRequest",
      user_logout |-> "userLogoutStageRequest",
      user_write |-> "userWriteStageRequest" ]

STAGE_TYPE_PATCHED_KEY ==
    [ authenticator_duo |-> "patchedAuthenticatorDuoStageRequest",
      authenticator_email |-> "patchedAuthenticatorEmailStageRequest",
      authenticator_endpoint_gdtc |-> "patchedAuthenticatorEndpointGDTCStageRequest",
      authenticator_sms |-> "patchedAuthenticatorSMSStageRequest",
      authenticator_static |-> "patchedAuthenticatorStaticStageRequest",
      authenticator_totp |-> "patchedAuthenticatorTOTPStageRequest",
      authenticator_validate |-> "patchedAuthenticatorValidateStageRequest",
      authenticator_webauthn |-> "patchedAuthenticatorWebAuthnStageRequest",
      captcha |-> "patchedCaptchaStageRequest",
      consent |-> "patchedConsentStageRequest",
      deny |-> "patchedDenyStageRequest",
      dummy |-> "patchedDummyStageRequest",
      email |-> "patchedEmailStageRequest",
      identification |-> "patchedIdentificationStageRequest",
      invitation |-> "patchedInvitationStageRequest",
      mtls |-> "patchedMutualTLSStageRequest",
      password |-> "patchedPasswordStageRequest",
      prompt |-> "patchedPromptStageRequest",
      redirect |-> "patchedRedirectStageRequest",
      source |-> "patchedSourceStageRequest",
      user_delete |-> "patchedUserDeleteStageRequest",
      user_login |-> "patchedUserLoginStageRequest",
      user_logout |-> "patchedUserLogoutStageRequest",
      user_write |-> "patchedUserWriteStageRequest" ]

\* src/src/tools/providers.ts
PROVIDER_TYPES ==
    << "oauth2", "saml", "ldap", "proxy", "radius", "scim", "rac",
       "google_workspace", "microsoft_entra" >>

PROVIDER_TYPE_SDK_PREFIX ==
    [ oauth2 |-> "Oauth2",
      saml |-> "Saml",
      ldap |-> "Ldap",
      proxy |-> "Proxy",
      radius |-> "Radius",
      scim |-> "Scim",
      rac |-> "Rac",
      google_workspace |-> "GoogleWorkspace",
      microsoft_entra |-> "MicrosoftEntra" ]

PROVIDER_TYPE_REQUEST_KEY ==
    [ oauth2 |-> "oAuth2ProviderRequest",
      saml |-> "sAMLProviderRequest",
      ldap |-> "lDAPProviderRequest",
      proxy |-> "proxyProviderRequest",
      radius |-> "radiusProviderRequest",
      scim |-> "sCIMProviderRequest",
      rac |-> "rACProviderRequest",
      google_workspace |-> "googleWorkspaceProviderRequest",
      microsoft_entra |-> "microsoftEntraProviderRequest" ]

\* Faulty variant: the update map has no entry for rac.
PROVIDER_TYPE_PATCHED_KEY_WithoutRac ==
    [ oauth2 |-> "patchedOAuth2ProviderRequest",
      saml |-> "patchedSAMLProviderRequest",
      ldap |-> "patchedLDAPProviderRequest",
      proxy |-> "patchedProxyProviderRequest",
      radius |-> "patchedRadiusProviderRequest",
      scim |-> "patchedSCIMProviderRequest",
      google_workspace |-> "patchedGoogleWorkspaceProviderRequest",
      microsoft_entra |-> "patchedMicrosoftEntraProviderRequest" ]

PROVIDER_TYPE_PATCHED_KEY ==
    [ oauth2 |-> "patchedOAuth2ProviderRequest",
      saml |-> "patchedSAMLProviderRequest",
      ldap |-> "patchedLDAPProviderRequest",
      proxy |-> "patchedProxyProviderRequest",
      radius |-> "patchedRadiusProviderRequest",
      scim |-> "patchedSCIMProviderRequest",
      rac |-> "patchedRACProviderRequest",
      google_workspace |-> "patchedGoogleWorkspaceProviderRequest",
      microsoft_entra |-> "patchedMicrosoftEntraProviderRequest" ]

\* src/src/tools/rac.ts
POLICY_TYPES ==
    << "dummy", "event_matcher", "expression", "geoip", "password",
       "password_expiry", "reputation", "unique_password" >>

POLICY_TYPE_SDK_PREFIX ==
    [ dummy |-> "Dummy",
      event_matcher |-> "EventMatcher",
      expression |-> "Expression",
      geoip |-> "Geoip",
      password |-> "Password",
      password_expiry |-> "PasswordExpiry",
      reputation |-> "Reputation",
      unique_password |-> "UniquePassword" ]

POLICY_TYPE_REQUEST_KEY ==
    [ dummy |-> "dummyPolicyRequest",
      event_matcher |-> "eventMatcherPolicyRequest",
      expression |-> "expressionPolicyRequest",
      geoip |-> "geoIPPolicyRequest",
      password |-> "passwordPolicyRequest",
      password_expiry |-> "passwordExpiryPolicyRequest",
      reputation |-> "reputationPolicyRequest",
      unique_password |-> "uniquePasswordPolicyRequest" ]

POLICY_TYPE_PATCHED_KEY ==
    [ dummy |-> "patchedDummyPolicyRequest",
      event_matcher |-> "patchedEventMatcherPolicyRequest",
      expression |-> "patchedExpressionPolicyRequest",
      geoip |-> "patchedGeoIPPolicyRequest",
      password |-> "patchedPasswordPolicyRequest",
      password_expiry |-> "patchedPasswordExpiryPolicyRequest",
      reputation |-> "patchedReputationPolicyRequest",
      unique_password |-> "patchedUniquePasswordPolicyRequest" ]

\* src/src/tools/rbac.ts
SOURCE_TYPE_SDK_PREFIX ==
    [ oauth |-> "Oauth",
      saml |-> "Saml",
      ldap |-> "Ldap",
      plex |-> "Plex",
      kerberos |-> "Kerberos",
      scim |-> "Scim" ]

\* Object.keys(SOURCE_TYPE_SDK_PREFIX).join(', '): the keys in insertion order.
SOURCE_TYPE_SDK_PREFIX_KEYS ==
    << "oauth", "saml", "ldap", "plex", "kerberos", "scim" >>

VALID_SOURCE_TYPES == join(SOURCE_TYPE_SDK_PREFIX_KEYS, ", ")

SOURCE_TYPE_REQUEST_KEY ==
    [ oauth |-> "oAuthSourceRequest",
      saml |-> "sAMLSourceRequest",
      ldap |-> "lDAPSourceRequest",
      plex |-> "plexSourceRequest",
      kerberos |-> "kerberosSourceRequest",
      scim |-> "sCIMSourceRequest" ]

SOURCE_TYPE_PATCHED_KEY ==
    [ oauth |-> "patchedOAuthSourceRequest",
      saml |-> "patchedSAMLSourceRequest",
      ldap |-> "patchedLDAPSourceRequest",
      plex |-> "patchedPlexSourceRequest",
      kerberos |-> "patchedKerberosSourceRequest",
      scim |-> "patchedSCIMSourceRequest" ]

\* src/unnamed/part_006
PMAP_TYPE_SDK_SUFFIX ==
    [ notification |-> "Notification",
      provider_google_workspace |-> "ProviderGoogleWorkspace",
      provider_microsoft_entra |-> "ProviderMicrosoftEntra",
      provider_rac |-> "ProviderRac",
      provider_radius |-> "ProviderRadius",
      provider_saml |-> "ProviderSaml",
      provider_scim |-> "ProviderScim",
      provider_scope |-> "ProviderScope",
      source_kerberos |-> "SourceKerberos",
      source_ldap |-> "SourceLdap",
      source_oauth |-> "SourceOauth",
      source_plex |-> "SourcePlex",
      source_saml |-> "SourceSaml",
      source_scim |-> "SourceScim" ]

\* Object.keys(PMAP_TYPE_SDK_SUFFIX).join(', '): the keys in insertion order.
PMAP_TYPE_SDK_SUFFIX_KEYS ==
    << "notification", "provider_google_workspace",
       "provider_microsoft_entra", "provider_rac", "provider_radius",
       "provider_saml", "provider_scim", "provider_scope",
       "source_kerberos", "source_ldap", "source_oauth", "source_plex",
       "source_saml", "source_scim" >>

VALID_PMAP_TYPES == join(PMAP_TYPE_SDK_SUFFIX_KEYS, ", ")

PMAP_TYPE_REQUEST_KEY ==
    [ notification |-> "notificationWebhookMappingRequest",
      provider_google_workspace |-> "googleWorkspaceProviderMappingRequest",
      provider_microsoft_entra |-> "microsoftEntraProviderMappingRequest",
      provider_rac |-> "rACPropertyMappingRequest",
      provider_radius |-> "radiusProviderPropertyMappingRequest",
      provider_saml |-> "sAMLPropertyMappingRequest",
      provider_scim |-> "sCIMMappingRequest",
      provider_scope |-> "scopeMappingRequest",
      source_kerberos |-> "kerberosSourcePropertyMappingRequest",
      source_ldap |-> "lDAPSourcePropertyMappingRequest",
      source_oauth |-> "oAuthSourcePropertyMappingRequest",
      source_plex |-> "plexSourcePropertyMappingRequest",
      source_saml |-> "sAMLSourcePropertyMappingRequest",
      source_scim |-> "sCIMSourcePropertyMappingRequest" ]

PMAP_TYPE_PATCHED_KEY ==
    [ notification |-> "patchedNotificationWebhookMappingRequest",
      provider_google_workspace |-> "patchedGoogleWorkspaceProviderMappingRequest",
      provider_microsoft_entra |-> "patchedMicrosoftEntraProviderMappingRequest",
      provider_rac |-> "patchedRACPropertyMappingRequest",
      provider_radius |-> "patchedRadiusProviderPropertyMappingRequest",
      provider_saml |-> "patchedSAMLPropertyMappingRequest",
      provider_scim |-> "patchedSCIMMappingRequest",
      provider_scope |-> "patchedScopeMappingRequest",
      source_kerberos |-> "patchedKerberosSourcePropertyMappingRequest",
      source_ldap |-> "patchedLDAPSourcePropertyMappingRequest",
      source_oauth |-> "patchedOAuthSourcePropertyMappingRequest",
      source_plex |-> "patchedPlexSourcePropertyMappingRequest",
      source_saml |-> "patchedSAMLSourcePropertyMappingRequest",
      source_scim |-> "patchedSCIMSourcePropertyMappingRequest" ]

(***************************************************************************)
(* One record per by-type family: the name part of its tools, the client   *)
(* facet and the fixed start of its method names, the argument that holds  *)
(* the discriminator and its input schema (z.enum over the declared types, *)
(* or z.string()), and the three maps.                                     *)
(***************************************************************************)
DispatchTables ==
    { [tool |-> "stages", api |-> "stagesApi", prefix |-> "stages",
       argument |-> "stage_type", schema |-> "enum", types |-> STAGE_TYPES,
       valid |-> "",
       fragment |-> STAGE_TYPE_SDK_PREFIX,
       requestKey |-> STAGE_TYPE_REQUEST_KEY,
       patchedKey |-> STAGE_TYPE_PATCHED_KEY],
      [tool |-> "providers", api |-> "providersApi", prefix |-> "providers",
       argument |-> "provider_type", schema |-> "enum", types |-> PROVIDER_TYPES,
       valid |-> "",
       fragment |-> PROVIDER_TYPE_SDK_PREFIX,
       requestKey |-> PROVIDER_TYPE_REQUEST_KEY,
       patchedKey |-> PROVIDER_TYPE_PATCHED_KEY],
      [tool |-> "policies", api |-> "policiesApi", prefix |-> "policies",
       argument |-> "policy_type", schema |-> "enum", types |-> POLICY_TYPES,
       valid |-> "",
       fragment |-> POLICY_TYPE_SDK_PREFIX,
       requestKey |-> POLICY_TYPE_REQUEST_KEY,
       patchedKey |-> POLICY_TYPE_PATCHED_KEY],
      [tool |-> "sources", api |-> "sourcesApi", prefix |-> "sources",
       argument |-> "source_type", schema |-> "string",
       types |-> SOURCE_TYPE_SDK_PREFIX_KEYS,
       valid |-> VALID_SOURCE_TYPES,
       fragment |-> SOURCE_TYPE_SDK_PREFIX,
       requestKey |-> SOURCE_TYPE_REQUEST_KEY,
       patchedKey |-> SOURCE_TYPE_PATCHED_KEY],
      [tool |-> "property_mappings", api |-> "propertymappingsApi",
       prefix |-> "propertymappings",
       argument |-> "mapping_type", schema |-> "string",
       types |-> PMAP_TYPE_SDK_SUFFIX_KEYS,
       valid |-> VALID_PMAP_TYPES,
       fragment |-> PMAP_TYPE_SDK_SUFFIX,
       requestKey |-> PMAP_TYPE_REQUEST_KEY,
       patchedKey |-> PMAP_TYPE_PATCHED_KEY] }

\* The five by-type tools of a family and the end of the client method's
\* name that each one composes.
OperationSuffix ==
    [list |-> "List", get |-> "Retrieve", create |-> "Create",
     update |-> "PartialUpdate", delete |-> "Destroy"]
OperationKinds == DOMAIN OperationSuffix
byTypeToolName(t, kind) == "authentik_" \o t.tool \o "_by_type_" \o kind

(***************************************************************************)
(* table[key] on an object literal: an own property, else a property       *)
(* inherited from Object.prototype (a function), else undefined.  s is     *)
(* what a template literal makes of the value.                             *)
(***************************************************************************)
ObjectPrototype ==
    [constructor |-> "function Object() { [native code] }",
     toString |-> "function toString() { [native code] }"]

lookup(table, key) ==
    IF key \in DOMAIN table THEN [type |-> "string", s |-> table[key]]
    ELSE IF key \in DOMAIN ObjectPrototype
    THEN [type |-> "function", s |-> ObjectPrototype[key]]
    ELSE [type |-> "undefined", s |-> "undefined"]

\* !value
falsy(value) ==
    value.type = "undefined" \/ (value.type = "string" /\ value.s = "")

\* The methods of a family's generated client facet that the by-type tools
\* are written against: one per declared discriminator and operation.
ApiMethods(t) ==
    { t.prefix \o t.fragment[d] \o OperationSuffix[kind] :
          d \in DOMAIN t.fragment, kind \in OperationKinds }

(***************************************************************************)
(* The by-type handlers.  The result is the calls made on the client facet *)
(* (none or one, with the body key of create and update) and the error     *)
(* thrown, if any; an error message is the sequence of the parts of its    *)
(* template literal.                                                       *)
(***************************************************************************)
BackendCall(api, method, bodyKey) ==
    [api |-> api, method |-> method, bodyKey |-> bodyKey]
Calls(calls) == [calls |-> calls, threw |-> None]
Throws(kind, parts) == [calls |-> <<>>, threw |-> Some([kind |-> kind, parts |-> parts])]

\* Faulty variant: update takes the body key of create.
bodyKeyOf_RequestKeyForUpdate(t, kind, type) ==
    IF kind = "create" \/ kind = "update" THEN Some(lookup(t.requestKey, type))
    ELSE None

bodyKeyOf(t, kind, type) ==
    IF kind = "create" THEN Some(lookup(t.requestKey, type))
    ELSE IF kind = "update" THEN Some(lookup(t.patchedKey, type))
    ELSE None

\* stages, providers and policies (e.g. src/src/tools/providers.ts lines
\* 152-163): the method is looked up by its composed name and called.
enumStyleHandler(t, kind, type) ==
    LET prefix == lookup(t.fragment, type)
        method == t.prefix \o prefix.s \o OperationSuffix[kind]
        bodyKey == bodyKeyOf(t, kind, type)
    IN  IF method \in ApiMethods(t)
        THEN Calls(<<BackendCall(t.api, method,
                                 IF bodyKey = None THEN None ELSE Some(bodyKey[1].s))>>)
        ELSE Throws("TypeError", <<"client.", t.api, "[method] is not a function">>)

\* sources and property mappings (e.g. src/src/tools/rbac.ts lines 631-647):
\* a falsy fragment or body key throws the "Invalid ..." error, then the
\* method is looked up by its composed name, bound and called.
checkedStyleHandler(t, kind, type) ==
    LET prefix == lookup(t.fragment, type)
        methodName == t.prefix \o prefix.s \o OperationSuffix[kind]
        bodyKey == bodyKeyOf(t, kind, type)
    IN  IF falsy(prefix) \/ (bodyKey # None /\ falsy(bodyKey[1]))
        THEN Throws("Error", <<"Invalid ", t.argument, " \"", type,
                               "\". Valid types: ", t.valid>>)
        ELSE IF methodName \notin ApiMethods(t)
        THEN Throws("TypeError",
                    <<"Cannot read properties of undefined (reading 'bind')">>)
        ELSE Calls(<<BackendCall(t.api, methodName,
                                 IF bodyKey = None THEN None ELSE Some(bodyKey[1].s))>>)

\* The server validates the arguments against the tool's input schema
\* before it calls the handler: z.enum(types) admits the declared types only
\* and its issue carries the received value and the options; z.string()
\* admits every string.
invokeByType(t, kind, type) ==
    IF t.schema = "enum" /\ ~includes(t.types, type)
    THEN Throws("invalid_enum_value", <<type>> \o t.types)
    ELSE IF t.schema = "enum" THEN enumStyleHandler(t, kind, type)
    ELSE checkedStyleHandler(t, kind, type)

(***************************************************************************)
(* The characters of the strings that make up the handlers' error          *)
(* messages and of the discriminators sent, and the message of a thrown    *)
(* error as the text that sanitizeMessage works on.                        *)
(***************************************************************************)
Characters ==
       ("Invalid " :> <<"I", "n", "v", "a", "l", "i", "d", " ">>)
    @@ ("source_type" :> <<"s", "o", "u", "r", "c", "e", "_", "t", "y", "p", "e">>)
    @@ ("mapping_type" :> <<"m", "a", "p", "p", "i", "n", "g", "_", "t", "y", "p", "e">>)
    @@ (" \"" :> <<" ", "\"">>)
    @@ ("\". Valid types: " :> <<"\"", ".", " ", "V", "a", "l", "i", "d", " ", "t", "y", "p", "e", "s", ":", " ">>)
    @@ ("Cannot read properties of undefined (reading 'bind')" :> <<"C", "a", "n", "n", "o", "t", " ", "r", "e", "a", "d", " ", "p", "r", "o", "p", "e", "r", "t", "i", "e", "s", " ", "o", "f", " ", "u", "n", "d", "e", "f", "i", "n", "e", "d", " ", "(", "r", "e", "a", "d", "i", "n", "g", " ", "'", "b", "i", "n", "d", "'", ")">>)
    @@ ("client." :> <<"c", "l", "i", "e", "n", "t", ".">>)
    @@ ("stagesApi" :> <<"s", "t", "a", "g", "e", "s", "A", "p", "i">>)
    @@ ("providersApi" :> <<"p", "r", "o", "v", "i", "d", "e", "r", "s", "A", "p", "i">>)
    @@ ("policiesApi" :> <<"p", "o", "l", "i", "c", "i", "e", "s", "A", "p", "i">>)
    @@ ("[method] is not a function" :> <<"[", "m", "e", "t", "h", "o", "d", "]", " ", "i", "s", " ", "n", "o", "t", " ", "a", " ", "f", "u", "n", "c", "t", "i", "o", "n">>)
    @@ ("bogus_type" :> <<"b", "o", "g", "u", "s", "_", "t", "y", "p", "e">>)
    @@ ("constructor" :> <<"c", "o", "n", "s", "t", "r", "u", "c", "t", "o", "r">>)
    @@ ("toString" :> <<"t", "o", "S", "t", "r", "i", "n", "g">>)
    @@ ("" :> <<>>)
    @@ ("t0k" :> <<"t", "0", "k">>)
    @@ ("Bearer x" :> <<"B", "e", "a", "r", "e", "r", " ", "x">>)
    @@ ("http://a/api/v3" :> <<"h", "t", "t", "p", ":", "/", "/", "a", "/", "a", "p", "i", "/", "v", "3">>)
    @@ ("oauth" :> <<"o", "a", "u", "t", "h">>)
    @@ ("saml" :> <<"s", "a", "m", "l">>)
    @@ ("ldap" :> <<"l", "d", "a", "p">>)
    @@ ("plex" :> <<"p", "l", "e", "x">>)
    @@ ("kerberos" :> <<"k", "e", "r", "b", "e", "r", "o", "s">>)
    @@ ("scim" :> <<"s", "c", "i", "m">>)
    @@ ("notification" :> <<"n", "o", "t", "i", "f", "i", "c", "a", "t", "i", "o", "n">>)
    @@ ("provider_google_workspace" :> <<"p", "r", "o", "v", "i", "d", "e", "r", "_", "g", "o", "o", "g", "l", "e", "_", "w", "o", "r", "k", "s", "p", "a", "c", "e">>)
    @@ ("provider_microsoft_entra" :> <<"p", "r", "o", "v", "i", "d", "e", "r", "_", "m", "i", "c", "r", "o", "s", "o", "f", "t", "_", "e", "n", "t", "r", "a">>)
    @@ ("provider_rac" :> <<"p", "r", "o", "v", "i", "d", "e", "r", "_", "r", "a", "c">>)
    @@ ("provider_radius" :> <<"p", "r", "o", "v", "i", "d", "e", "r", "_", "r", "a", "d", "i", "u", "s">>)
    @@ ("provider_saml" :> <<"p", "r", "o", "v", "i", "d", "e", "r", "_", "s", "a", "m", "l">>)
    @@ ("provider_scim" :> <<"p", "r", "o", "v", "i", "d", "e", "r", "_", "s", "c", "i", "m">>)
    @@ ("provider_scope" :> <<"p", "r", "o", "v", "i", "d", "e", "r", "_", "s", "c", "o", "p", "e">>)
    @@ ("source_kerberos" :> <<"s", "o", "u", "r", "c", "e", "_", "k", "e", "r", "b", "e", "r", "o", "s">>)
    @@ ("source_ldap" :> <<"s", "o", "u", "r", "c", "e", "_", "l", "d", "a", "p">>)
    @@ ("source_oauth" :> <<"s", "o", "u", "r", "c", "e", "_", "o", "a", "u", "t", "h">>)
    @@ ("source_plex" :> <<"s", "o", "u", "r", "c", "e", "_", "p", "l", "e", "x">>)
    @@ ("source_saml" :> <<"s", "o", "u", "r", "c", "e", "_", "s", "a", "m", "l">>)
    @@ ("source_scim" :> <<"s", "o", "u", "r", "c", "e", "_", "s", "c", "i", "m">>)

characters(s) ==
    IF s \in DOMAIN Characters THEN Characters[s]
    ELSE IF s = VALID_SOURCE_TYPES
    THEN join([i \in DOMAIN SOURCE_TYPE_SDK_PREFIX_KEYS |->
                   Characters[SOURCE_TYPE_SDK_PREFIX_KEYS[i]]], <<",", " ">>)
    ELSE join([i \in DOMAIN PMAP_TYPE_SDK_SUFFIX_KEYS |->
                   Characters[PMAP_TYPE_SDK_SUFFIX_KEYS[i]]], <<",", " ">>)

messageText(parts) == join([i \in DOMAIN parts |-> characters(parts[i])], <<>>)

\* Faulty variant: the message of the thrown error is not redacted.
settledByType_Unredacted(cfg, outcome) ==
    IF outcome.threw = None \/ outcome.threw[1].kind = "invalid_enum_value"
    THEN None
    ELSE Some(Resolved(<<TextItem(ErrorPrefix \o messageText(outcome.threw[1].parts))>>,
                       Some(TRUE)))

\* What the registered handler (registerTool, lines 55-67) settles to when
\* the by-type handler throws before it calls the backend.  An argument
\* that the input schema rejects never reaches the handler, and a handler
\* that has called the backend settles with the backend's reply.
settledByType(cfg, outcome) ==
    IF outcome.threw = None \/ outcome.threw[1].kind = "invalid_enum_value"
    THEN None
    ELSE Some(wrappedHandler(cfg,
                  Throw([kind |-> "Error",
                         message |-> StringValue(messageText(outcome.threw[1].parts))])))

\* The discriminators a client can send: the declared ones and some others,
\* among them the token and the URL of the config and a Bearer credential.
DiscriminatorInputs(t) ==
    { t.types[i] : i \in DOMAIN t.types }
        \cup { "bogus_type", "constructor", "toString", "",
               "t0k", "Bearer x", "http://a/api/v3" }

\* The server calls a registered by-type tool.
InvokeByType ==
    /\ pc = "serving"
    /\ lastDispatch = None
    /\ \E i \in DOMAIN serverCalls : \E t \in DispatchTables :
       \E kind \in OperationKinds :
           /\ serverCalls[i].name = byTypeToolName(t, kind)
           /\ \E type \in DiscriminatorInputs(t) :
                  LET outcome == invokeByType(t, kind, type)
                  IN  lastDispatch' = Some([tool |-> serverCalls[i].name,
                                            family |-> t.tool, kind |-> kind,
                                            type |-> type,
                                            outcome |-> outcome,
                                            result |-> settledByType(config, outcome)])
    /\ UNCHANGED <<config, pc, serverCalls, nOffered, lastOffer, lastResult, logs, called, startup, facets, inflight>>

\* The server hands the outcome back to its client.
RespondByType ==
    /\ pc = "serving"
    /\ lastDispatch # None
    /\ lastDispatch' = None
    /\ UNCHANGED <<config, pc, serverCalls, nOffered, lastOffer, lastResult, logs, called, startup, facets, inflight>>

(***************************************************************************)
(* SpecDispatch: registerAllTools, then invocations of the by-type tools.  *)
(***************************************************************************)
DispatchConfigs ==
    [accessTier : AccessTier,
     categories : { None, Some(<<"sources", "providers">>) },
     token : { <<"t", "0", "k">> }, url : Urls]

InitDispatch == InitWith(DispatchConfigs)

NextDispatch ==
    \/ RegisterAllToolsStep
    \/ StartServerAfterCatalog
    \/ InvokeByType
    \/ RespondByType

SpecDispatch == InitDispatch /\ [][NextDispatch]_vars

(***************************************************************************)
(* Startup: loadConfig and its helpers (src/src/core/tools.ts lines        *)
(* 147-203) and main (src/src/index.ts lines 26-50).  An environment       *)
(* variable is unset (None) or holds a string; the access tier is compared *)
(* as a whole and is a string, the other values are texts.                 *)
(***************************************************************************)
Returns(value) == [threw |-> None, value |-> Some(value)]
Raises(parts) == [threw |-> Some(parts), value |-> None]

\* Faulty variant: a value that names no tier yields the default tier.
parseAccessTier_DefaultsOnInvalid(value) ==
    IF value = None \/ value = Some("") THEN Returns("full")
    ELSE IF value[1] = "read-only" THEN Returns("read-only")
    ELSE Returns("full")

parseAccessTier(value) ==
    IF value = None \/ value = Some("") THEN Returns("full")
    ELSE IF value[1] = "read-only" \/ value[1] = "full" THEN Returns(value[1])
    ELSE Raises(<<"Invalid AUTHENTIK_ACCESS_TIER value: \"", value[1],
                  "\". Must be \"read-only\" or \"full\".">>)

\* String.prototype.split with a one-character separator.
split(s, sep) ==
    LET cuts == <<0>> \o SelectSeq([i \in 1..Len(s) |-> i], LAMBDA i : s[i] = sep)
                      \o <<Len(s) + 1>>
    IN  [k \in 1..(Len(cuts) - 1) |-> SubSeq(s, cuts[k] + 1, cuts[k + 1] - 1)]

\* String.prototype.trim.
trim(s) ==
    LET kept == { i \in 1..Len(s) : ~isSpace(s[i]) }
    IN  IF kept = {} THEN <<>>
        ELSE SubSeq(s, least(kept), CHOOSE j \in kept : \A k \in kept : k <= j)

parseCategories(value) ==
    IF value = None \/ value = Some(<<>>) THEN None
    ELSE LET pieces == split(value[1], ",")
             trimmed == [k \in 1..Len(pieces) |-> string(trim(pieces[k]))]
         IN  Some(SelectSeq(trimmed, LAMBDA c : c # ""))

\* parseInt(s, 10): leading whitespace and one sign are skipped, the digits
\* that follow are read, whatever comes after them is ignored; NaN (None)
\* when no digit is there.
digitValue(c) == (CHOOSE i \in 1..Len(Digits) : Digits[i] = c) - 1
isDigit(c) == \E i \in 1..Len(Digits) : Digits[i] = c
RECURSIVE decimalValue(_)
decimalValue(ds) ==
    IF Len(ds) = 0 THEN 0
    ELSE 10 * decimalValue(SubSeq(ds, 1, Len(ds) - 1)) + digitValue(ds[Len(ds)])
parseInt(s) ==
    LET start == skipWhile(s, 1, TRUE)
        negative == start <= Len(s) /\ s[start] = "-"
        first == IF start <= Len(s) /\ s[start] \in {"-", "+"} THEN start + 1 ELSE start
        stop == least({ j \in first..(Len(s) + 1) : j > Len(s) \/ ~isDigit(s[j]) })
    IN  IF stop = first THEN None
        ELSE Some((IF negative THEN -1 ELSE 1) * decimalValue(SubSeq(s, first, stop - 1)))

DefaultPort == <<"3", "0", "0", "0">>
DefaultHost == <<"0", ".", "0", ".", "0", ".", "0">>
MinPort == 1
MaxPort == 65535

loadConfig(env) ==
    IF env.AUTHENTIK_URL = None \/ env.AUTHENTIK_URL = Some(<<>>)
    THEN Raises(<<"Missing required environment variable: AUTHENTIK_URL">>)
    ELSE IF env.AUTHENTIK_TOKEN = None \/ env.AUTHENTIK_TOKEN = Some(<<>>)
    THEN Raises(<<"Missing required environment variable: AUTHENTIK_TOKEN">>)
    ELSE LET accessTier == parseAccessTier(env.AUTHENTIK_ACCESS_TIER)
             categories == parseCategories(env.AUTHENTIK_CATEGORIES)
             transport == IF env.MCP_TRANSPORT = Some("http") THEN "http" ELSE "stdio"
             rawPort == IF env.MCP_PORT = None THEN DefaultPort ELSE env.MCP_PORT[1]
             httpPort == parseInt(rawPort)
             httpHost == IF env.MCP_HOST = None THEN DefaultHost ELSE env.MCP_HOST[1]
         IN  IF accessTier.threw # None THEN accessTier
             ELSE IF httpPort = None \/ httpPort[1] < MinPort \/ httpPort[1] > MaxPort
             THEN Raises(<<"Invalid MCP_PORT: \"", string(rawPort),
                           "\". Must be an integer between 1 and 65535.">>)
             ELSE Returns([url |-> normalizeUrl(env.AUTHENTIK_URL[1]),
                           token |-> env.AUTHENTIK_TOKEN[1],
                           accessTier |-> accessTier.value[1],
                           categories |-> categories,
                           transport |-> transport,
                           httpPort |-> httpPort[1],
                           httpHost |-> httpHost])

\* The environments explored.
Environments ==
    [AUTHENTIK_URL : { None, Some(<<>>), Some(<<"h", "t", "t", "p", ":", "/", "/", "a", "/">>) },
     AUTHENTIK_TOKEN : { None, Some(<<>>), Some(<<"t", "0", "k">>) },
     AUTHENTIK_ACCESS_TIER :
         { None, Some(""), Some("read-only"), Some("full"), Some("READ-ONLY"),
           Some("readonly"), Some(" full") },
     AUTHENTIK_CATEGORIES :
         { None, Some(<<",">>), Some(<<"c", "o", "r", "e", ",", " ", "s", "s", "f", ",">>) },
     MCP_TRANSPORT : { None },
     MCP_PORT : { None, Some(<<"0">>), Some(<<"8", "0", "x">>), Some(<<"a", "b", "c">>) },
     MCP_HOST : { None }]

\* process.exit(1) after logger.error.
ExitWithFailure ==
    /\ pc' = "exited"
    /\ logs' = logs + 1

\* main, lines 27-33: loadConfig; a throw is logged and ends the process.
LoadConfig ==
    /\ pc = "loading"
    /\ LET loaded == loadConfig(startup.env[1])
       IN  IF loaded.threw # None
           THEN /\ ExitWithFailure
                /\ startup' = [startup EXCEPT !.exitCode = Some(1)]
                /\ UNCHANGED config
           ELSE /\ pc' = "validating"
                /\ config' = loaded.value[1]
                /\ UNCHANGED <<startup, logs>>
    /\ UNCHANGED <<serverCalls, nOffered, lastOffer, lastResult, called,
                   lastDispatch, facets, inflight>>

\* Faulty variant: a failed validation is logged and main goes on.
ValidateConnection_GoesOnAfterFailure ==
    /\ pc = "validating"
    /\ facets' = getFacet(facets, "adminApi")
    /\ \E answered \in BOOLEAN :
           /\ startup' = [startup EXCEPT
                              !.connection = Some(IF answered THEN "connected" ELSE "failed")]
           /\ pc' = "registering"
           /\ logs' = logs + 2
    /\ UNCHANGED <<config, serverCalls, nOffered, lastOffer, lastResult, called,
                   lastDispatch, inflight>>

\* main, lines 35-45: the client is made, validateConnection reads the admin
\* facet and awaits its version request; a failure is logged and ends the
\* process, a success is logged and so is the access tier.
ValidateConnection ==
    /\ pc = "validating"
    /\ facets' = getFacet(facets, "adminApi")
    /\ \E answered \in BOOLEAN :
           IF answered
           THEN /\ startup' = [startup EXCEPT !.connection = Some("connected")]
                /\ pc' = "registering"
                /\ logs' = logs + 2
           ELSE /\ startup' = [startup EXCEPT !.connection = Some("failed"),
                                              !.exitCode = Some(1)]
                /\ ExitWithFailure
    /\ UNCHANGED <<config, serverCalls, nOffered, lastOffer, lastResult, called,
                   lastDispatch, inflight>>

(***************************************************************************)
(* SpecStartup: main from its first statement, under every environment.    *)
(***************************************************************************)
InitStartup ==
    /\ startup \in [env : { Some(e) : e \in Environments },
                    connection : { None }, exitCode : { None }]
    /\ config = None
    /\ pc = "loading"
    /\ serverCalls = <<>>
    /\ nOffered = 0
    /\ lastOffer = None
    /\ lastResult = None
    /\ logs = 0
    /\ called = <<>>
    /\ lastDispatch = None
    /\ facets = NoFacets
    /\ inflight = NoInvocations

NextStartup ==
    \/ LoadConfig
    \/ ValidateConnection
    \/ RegisterAllToolsStep
    \/ StartServerAfterCatalog

SpecStartup == InitStartup /\ [][NextStartup]_vars

(***************************************************************************)
(* Invocations in flight.  Every handler of the catalog reads one facet of *)
(* the client and awaits at most one call on it; FacetOf is that facet.    *)
(***************************************************************************)
FacetOf ==
    [ authentik_users_list |-> "coreApi",
      authentik_users_get |-> "coreApi",
      authentik_users_create |-> "coreApi",
      authentik_users_update |-> "coreApi",
      authentik_users_delete |-> "coreApi",
      authentik_users_me |-> "coreApi",
      authentik_users_set_password |-> "coreApi",
      authentik_users_create_service_account |-> "coreApi",
      authentik_users_generate_recovery_link |-> "coreApi",
      authentik_users_send_recovery_email |-> "coreApi",
      authentik_users_list_paths |-> "coreApi",
      authentik_groups_list |-> "coreApi",
      authentik_groups_get |-> "coreApi",
      authentik_groups_create |-> "coreApi",
      authentik_groups_update |-> "coreApi",
      authentik_groups_delete |-> "coreApi",
      authentik_groups_add_user |-> "coreApi",
      authentik_groups_remove_user |-> "coreApi",
      authentik_apps_list |-> "coreApi",
      authentik_apps_get |-> "coreApi",
      authentik_apps_create |-> "coreApi",
      authentik_apps_update |-> "coreApi",
      authentik_apps_set_icon_url |-> "coreApi",
      authentik_apps_delete |-> "coreApi",
      authentik_apps_check_access |-> "coreApi",
      authentik_apps_update_transactional |-> "coreApi",
      authentik_app_entitlements_list |-> "coreApi",
      authentik_app_entitlements_get |-> "coreApi",
      authentik_app_entitlements_create |-> "coreApi",
      authentik_app_entitlements_update |-> "coreApi",
      authentik_app_entitlements_delete |-> "coreApi",
      authentik_tokens_list |-> "coreApi",
      authentik_tokens_get |-> "coreApi",
      authentik_tokens_create |-> "coreApi",
      authentik_tokens_update |-> "coreApi",
      authentik_tokens_delete |-> "coreApi",
      authentik_tokens_view_key |-> "coreApi",
      authentik_tokens_set_key |-> "coreApi",
      authentik_brands_list |-> "coreApi",
      authentik_brands_get |-> "coreApi",
      authentik_brands_create |-> "coreApi",
      authentik_brands_update |-> "coreApi",
      authentik_brands_delete |-> "coreApi",
      authentik_brands_current |-> "coreApi",
      authentik_admin_system_info |-> "adminApi",
      authentik_admin_version |-> "adminApi",
      authentik_admin_settings_get |-> "adminApi",
      authentik_admin_settings_update |-> "adminApi",
      authentik_admin_apps |-> "adminApi",
      authentik_admin_models |-> "adminApi",
      authentik_admin_version_history |-> "adminApi",
      authentik_admin_system_task_trigger |-> "adminApi",
      authentik_tasks_list |-> "eventsApi",
      authentik_tasks_get |-> "eventsApi",
      authentik_tasks_retry |-> "eventsApi",
      authentik_root_config |-> "rootApi",
      authentik_flows_list |-> "flowsApi",
      authentik_flows_get |-> "flowsApi",
      authentik_flows_create |-> "flowsApi",
      authentik_flows_update |-> "flowsApi",
      authentik_flows_delete |-> "flowsApi",
      authentik_flows_diagram |-> "flowsApi",
      authentik_flows_export |-> "flowsApi",
      authentik_flows_import |-> "flowsApi",
      authentik_flows_cache_info |-> "flowsApi",
      authentik_flows_cache_clear |-> "flowsApi",
      authentik_flows_bindings_list |-> "flowsApi",
      authentik_flows_bindings_get |-> "flowsApi",
      authentik_flows_bindings_create |-> "flowsApi",
      authentik_flows_bindings_update |-> "flowsApi",
      authentik_flows_bindings_delete |-> "flowsApi",
      authentik_stages_list |-> "stagesApi",
      authentik_stages_get |-> "stagesApi",
      authentik_stages_delete |-> "stagesApi",
      authentik_stages_types_list |-> "stagesApi",
      authentik_stages_by_type_list |-> "stagesApi",
      authentik_stages_by_type_get |-> "stagesApi",
      authentik_stages_by_type_create |-> "stagesApi",
      authentik_stages_by_type_update |-> "stagesApi",
      authentik_stages_by_type_delete |-> "stagesApi",
      authentik_invitations_list |-> "stagesApi",
      authentik_invitations_get |-> "stagesApi",
      authentik_invitations_create |-> "stagesApi",
      authentik_invitations_update |-> "stagesApi",
      authentik_invitations_delete |-> "stagesApi",
      authentik_prompts_list |-> "stagesApi",
      authentik_prompts_get |-> "stagesApi",
      authentik_prompts_create |-> "stagesApi",
      authentik_prompts_update |-> "stagesApi",
      authentik_prompts_delete |-> "stagesApi",
      authentik_providers_list |-> "providersApi",
      authentik_providers_get |-> "providersApi",
      authentik_providers_delete |-> "providersApi",
      authentik_providers_types_list |-> "providersApi",
      authentik_providers_by_type_list |-> "providersApi",
      authentik_providers_by_type_get |-> "providersApi",
      authentik_providers_by_type_create |-> "providersApi",
      authentik_providers_by_type_update |-> "providersApi",
      authentik_providers_by_type_delete |-> "providersApi",
      authentik_providers_oauth2_setup_urls |-> "providersApi",
      authentik_providers_saml_metadata |-> "providersApi",
      authentik_policies_list |-> "policiesApi",
      authentik_policies_get |-> "policiesApi",
      authentik_policies_delete |-> "policiesApi",
      authentik_policies_types_list |-> "policiesApi",
      authentik_policies_test |-> "policiesApi",
      authentik_policies_cache_info |-> "policiesApi",
      authentik_policies_cache_clear |-> "policiesApi",
      authentik_policies_by_type_list |-> "policiesApi",
      authentik_policies_by_type_get |-> "policiesApi",
      authentik_policies_by_type_create |-> "policiesApi",
      authentik_policies_by_type_update |-> "policiesApi",
      authentik_policies_by_type_delete |-> "policiesApi",
      authentik_policy_bindings_list |-> "policiesApi",
      authentik_policy_bindings_get |-> "policiesApi",
      authentik_policy_bindings_create |-> "policiesApi",
      authentik_policy_bindings_update |-> "policiesApi",
      authentik_policy_bindings_delete |-> "policiesApi",
      authentik_reputation_scores_list |-> "policiesApi",
      authentik_reputation_scores_delete |-> "policiesApi",
      authentik_sources_list |-> "sourcesApi",
      authentik_sources_get |-> "sourcesApi",
      authentik_sources_delete |-> "sourcesApi",
      authentik_sources_types_list |-> "sourcesApi",
      authentik_sources_by_type_list |-> "sourcesApi",
      authentik_sources_by_type_get |-> "sourcesApi",
      authentik_sources_by_type_create |-> "sourcesApi",
      authentik_sources_by_type_update |-> "sourcesApi",
      authentik_sources_by_type_delete |-> "sourcesApi",
      authentik_sources_user_connections_list |-> "sourcesApi",
      authentik_property_mappings_list |-> "propertymappingsApi",
      authentik_property_mappings_get |-> "propertymappingsApi",
      authentik_property_mappings_delete |-> "propertymappingsApi",
      authentik_property_mappings_types_list |-> "propertymappingsApi",
      authentik_property_mappings_test |-> "propertymappingsApi",
      authentik_property_mappings_by_type_list |-> "propertymappingsApi",
      authentik_property_mappings_by_type_get |-> "propertymappingsApi",
      authentik_property_mappings_by_type_create |-> "propertymappingsApi",
      authentik_property_mappings_by_type_update |-> "propertymappingsApi",
      authentik_property_mappings_by_type_delete |-> "propertymappingsApi",
      authentik_rbac_roles_list |-> "rbacApi",
      authentik_rbac_roles_get |-> "rbacApi",
      authentik_rbac_roles_create |-> "rbacApi",
      authentik_rbac_roles_update |-> "rbacApi",
      authentik_rbac_roles_delete |-> "rbacApi",
      authentik_rbac_permissions_list |-> "rbacApi",
      authentik_rbac_permissions_by_role_list |-> "rbacApi",
      authentik_rbac_permissions_by_role_assign |-> "rbacApi",
      authentik_rbac_permissions_by_role_unassign |-> "rbacApi",
      authentik_rbac_permissions_by_user_list |-> "rbacApi",
      authentik_rbac_permissions_by_user_assign |-> "rbacApi",
      authentik_rbac_permissions_by_user_unassign |-> "rbacApi",
      authentik_events_list |-> "eventsApi",
      authentik_events_get |-> "eventsApi",
      authentik_events_create |-> "eventsApi",
      authentik_events_actions_list |-> "eventsApi",
      authentik_events_top_per_user |-> "eventsApi",
      authentik_events_volume |-> "eventsApi",
      authentik_events_rules_list |-> "eventsApi",
      authentik_events_rules_get |-> "eventsApi",
      authentik_events_rules_create |-> "eventsApi",
      authentik_events_rules_update |-> "eventsApi",
      authentik_events_rules_delete |-> "eventsApi",
      authentik_events_transports_list |-> "eventsApi",
      authentik_events_transports_get |-> "eventsApi",
      authentik_events_transports_create |-> "eventsApi",
      authentik_events_transports_update |-> "eventsApi",
      authentik_events_transports_delete |-> "eventsApi",
      authentik_events_transports_test |-> "eventsApi",
      authentik_events_notifications_list |-> "eventsApi",
      authentik_events_notifications_update |-> "eventsApi",
      authentik_events_notifications_delete |-> "eventsApi",
      authentik_events_notifications_mark_all_seen |-> "eventsApi",
      authentik_crypto_list |-> "cryptoApi",
      authentik_crypto_get |-> "cryptoApi",
      authentik_crypto_create |-> "cryptoApi",
      authentik_crypto_update |-> "cryptoApi",
      authentik_crypto_delete |-> "cryptoApi",
      authentik_crypto_generate |-> "cryptoApi",
      authentik_crypto_view_certificate |-> "cryptoApi",
      authentik_crypto_view_private_key |-> "cryptoApi",
      authentik_outposts_list |-> "outpostsApi",
      authentik_outposts_get |-> "outpostsApi",
      authentik_outposts_create |-> "outpostsApi",
      authentik_outposts_update |-> "outpostsApi",
      authentik_outposts_delete |-> "outpostsApi",
      authentik_outposts_health |-> "outpostsApi",
      authentik_outposts_default_settings |-> "outpostsApi",
      authentik_outposts_service_connections_list |-> "outpostsApi",
      authentik_outposts_service_connections_state |-> "outpostsApi",
      authentik_outposts_service_connections_types |-> "outpostsApi",
      authentik_outposts_docker_create |-> "outpostsApi",
      authentik_outposts_docker_update |-> "outpostsApi",
      authentik_outposts_kubernetes_create |-> "outpostsApi",
      authentik_outposts_kubernetes_update |-> "outpostsApi",
      authentik_outposts_service_connections_delete |-> "outpostsApi",
      authentik_blueprints_list |-> "managedApi",
      authentik_blueprints_get |-> "managedApi",
      authentik_blueprints_create |-> "managedApi",
      authentik_blueprints_update |-> "managedApi",
      authentik_blueprints_delete |-> "managedApi",
      authentik_blueprints_available |-> "managedApi",
      authentik_blueprints_apply |-> "managedApi",
      authentik_oauth2_access_tokens_list |-> "oauth2Api",
      authentik_oauth2_access_tokens_get |-> "oauth2Api",
      authentik_oauth2_access_tokens_delete |-> "oauth2Api",
      authentik_oauth2_auth_codes_list |-> "oauth2Api",
      authentik_oauth2_auth_codes_get |-> "oauth2Api",
      authentik_oauth2_auth_codes_delete |-> "oauth2Api",
      authentik_oauth2_refresh_tokens_list |-> "oauth2Api",
      authentik_oauth2_refresh_tokens_get |-> "oauth2Api",
      authentik_oauth2_refresh_tokens_delete |-> "oauth2Api",
      authentik_authenticators_list |-> "authenticatorsApi",
      authentik_authenticators_admin_by_type_list |-> "authenticatorsApi",
      authentik_authenticators_admin_by_type_get |-> "authenticatorsApi",
      authentik_authenticators_admin_by_type_delete |-> "authenticatorsApi",
      authentik_authenticators_user_by_type_list |-> "authenticatorsApi",
      authentik_enterprise_license_list |-> "enterpriseApi",
      authentik_enterprise_license_get |-> "enterpriseApi",
      authentik_enterprise_license_create |-> "enterpriseApi",
      authentik_enterprise_license_update |-> "enterpriseApi",
      authentik_enterprise_license_delete |-> "enterpriseApi",
      authentik_enterprise_license_summary |-> "enterpriseApi",
      authentik_enterprise_license_forecast |-> "enterpriseApi",
      authentik_enterprise_install_id |-> "enterpriseApi",
      authentik_rac_endpoints_list |-> "racApi",
      authentik_rac_endpoints_get |-> "racApi",
      authentik_rac_endpoints_create |-> "racApi",
      authentik_rac_endpoints_update |-> "racApi",
      authentik_rac_endpoints_delete |-> "racApi",
      authentik_rac_connection_tokens_list |-> "racApi",
      authentik_rac_connection_tokens_get |-> "racApi",
      authentik_rac_connection_tokens_delete |-> "racApi",
      authentik_ssf_streams_list |-> "ssfApi",
      authentik_ssf_streams_get |-> "ssfApi",
      authentik_tenants_get |-> "tenantsApi",
      authentik_tenants_create |-> "tenantsApi",
      authentik_tenants_update |-> "tenantsApi",
      authentik_tenants_delete |-> "tenantsApi",
      authentik_tenants_create_admin_group |-> "tenantsApi",
      authentik_tenants_create_recovery_key |-> "tenantsApi",
      authentik_tenants_domains_list |-> "tenantsApi",
      authentik_tenants_domains_create |-> "tenantsApi",
      authentik_tenants_domains_delete |-> "tenantsApi",
      authentik_tenants_list |-> "tenantsApi" ]

\* The tools that the server's client invokes here, and the arguments it
\* sends: two plain tools on the same facet, one on the facet that
\* validateConnection has built, one that tests its arguments before it
\* calls, and a by-type tool.
ServedTools ==
    {"authentik_users_list", "authentik_groups_list", "authentik_admin_version",
     "authentik_apps_set_icon_url", "authentik_sources_by_type_list"}
ArgumentsOf(tool) ==
    IF tool = "authentik_apps_set_icon_url" THEN {"clear", "url", "neither"}
    ELSE IF tool = "authentik_sources_by_type_list"
    THEN {"ldap", "bogus_type", "constructor"}
    ELSE {"none"}

EitherUrlOrClear ==
    <<"E", "i", "t", "h", "e", "r", " ", "\"", "u", "r", "l", "\"", " ", "o", "r", " ", "\"", "c", "l", "e", "a", "r", ":", " ", "t", "r", "u", "e", "\"", " ", "m", "u", "s", "t", " ", "b", "e", " ", "p", "r", "o", "v", "i", "d", "e", "d", ".">>

\* A handler from its first statement to its await of the backend call, or
\* to its throw: the facets it reads, in order, the calls it makes and the
\* error it throws.
UpToAwait(reads, calls, threw) == [reads |-> reads, calls |-> calls, threw |-> threw]
ErrorWith(text) == [kind |-> "Error", message |-> StringValue(text)]

handlerStart(tool, arguments) ==
    IF tool = "authentik_apps_set_icon_url"
    THEN IF arguments = "neither"
         THEN UpToAwait(<<>>, 0, Some(ErrorWith(EitherUrlOrClear)))
         ELSE UpToAwait(<<FacetOf[tool]>>, 1, None)
    ELSE IF tool = "authentik_sources_by_type_list"
    THEN LET t == CHOOSE u \in DispatchTables : u.tool = "sources"
             outcome == invokeByType(t, "list", arguments)
         IN  IF outcome.threw = None
             THEN UpToAwait(<<t.api, t.api>>, Len(outcome.calls), None)
             ELSE UpToAwait(IF outcome.threw[1].kind = "TypeError" THEN <<t.api>> ELSE <<>>,
                           0, Some(ErrorWith(messageText(outcome.threw[1].parts))))
    ELSE UpToAwait(<<FacetOf[tool]>>, 1, None)

\* The facets after the reads of a handler.
RECURSIVE readFacets(_, _)
readFacets(fs, reads) ==
    IF reads = <<>> THEN fs
    ELSE readFacets(getFacet(fs, Head(reads)), Tail(reads))

\* The wrapped handler (registerTool, lines 55-67) is called: it calls the
\* descriptor's handler once and awaits it.
beginInvocation(cfg, fs, tool, arguments) ==
    LET start == handlerStart(tool, arguments)
        after == readFacets(fs, start.reads)
    IN  [tool |-> tool, arguments |-> arguments, runs |-> 1, calls |-> start.calls,
         facet |-> IF start.reads = <<>> THEN None
                   ELSE Some([name |-> start.reads[1],
                              instance |-> after[start.reads[1]].built]),
         phase |-> IF start.threw = None THEN "awaiting" ELSE "settled",
         reply |-> None,
         result |-> IF start.threw = None THEN None
                    ELSE Some(wrappedHandler(cfg, Throw(start.threw[1])))]

\* What the backend call settles to: a value, which the handler renders as
\* text, or one of the errors of the generated client.
Replies(cfg) ==
    { [ok |-> TRUE, text |-> <<"{", "}">>, error |-> None],
      [ok |-> FALSE, text |-> <<>>,
       error |-> Some([kind |-> "ResponseError",
                       response |-> Some([status |-> 400,
                                          statusText |-> <<"B", "a", "d", " ", "R", "e", "q", "u", "e", "s", "t">>,
                                          body |-> Body("unreadable", <<>>)])])],
      [ok |-> FALSE, text |-> <<>>,
       error |-> Some([kind |-> "FetchError", message |-> <<"x">>,
                       cause |-> Some([message |-> StringValue(cfg.token)])])] }

\* Faulty variant: after a failed call the handler is run a second time.
afterReply_RetriesOnce(cfg, invocation, reply) ==
    IF ~reply.ok /\ invocation.runs = 1
    THEN [invocation EXCEPT !.runs = 2, !.calls = 2, !.reply = Some(reply)]
    ELSE [invocation EXCEPT
              !.phase = "settled",
              !.reply = Some(reply),
              !.result = Some(wrappedHandler(cfg,
                             IF reply.ok THEN Resolve(reply.text)
                             ELSE Throw(reply.error[1])))]

\* The awaited call settles: the handler returns its text or the error
\* reaches the catch of the wrapped handler.
afterReply(cfg, invocation, reply) ==
    [invocation EXCEPT
         !.phase = "settled",
         !.reply = Some(reply),
         !.result = Some(wrappedHandler(cfg,
                        IF reply.ok THEN Resolve(reply.text)
                        ELSE Throw(reply.error[1])))]

\* The server calls a registered handler while others may be in flight.
InvokeTool(slot) ==
    /\ pc = "serving"
    /\ inflight[slot] = None
    /\ \E i \in DOMAIN serverCalls :
           /\ serverCalls[i].name \in ServedTools
           /\ \E arguments \in ArgumentsOf(serverCalls[i].name) :
                  /\ inflight' =
                         [inflight EXCEPT ![slot] =
                              Some(beginInvocation(config, facets,
                                                   serverCalls[i].name, arguments))]
                  /\ facets' = readFacets(facets,
                                   handlerStart(serverCalls[i].name, arguments).reads)
    /\ UNCHANGED <<config, pc, serverCalls, nOffered, lastOffer, lastResult, logs,
                   called, lastDispatch, startup>>

\* The backend answers the call of an invocation in flight.
BackendReplies(slot) ==
    /\ pc = "serving"
    /\ inflight[slot] # None
    /\ inflight[slot][1].phase = "awaiting"
    /\ \E reply \in Replies(config) :
           inflight' = [inflight EXCEPT
                            ![slot] = Some(afterReply(config, inflight[slot][1], reply))]
    /\ UNCHANGED <<config, pc, serverCalls, nOffered, lastOffer, lastResult, logs,
                   called, lastDispatch, startup, facets>>

\* The server hands the settled result back to its client.
Deliver(slot) ==
    /\ pc = "serving"
    /\ inflight[slot] # None
    /\ inflight[slot][1].phase = "settled"
    /\ inflight' = [inflight EXCEPT ![slot] = None]
    /\ UNCHANGED <<config, pc, serverCalls, nOffered, lastOffer, lastResult, logs,
                   called, lastDispatch, startup, facets>>

(***************************************************************************)
(* SpecServe: registerAllTools, then invocations that overlap.             *)
(***************************************************************************)
ServeConfigs ==
    [accessTier : AccessTier, categories : { None },
     token : { <<"t", "0", "k">> }, url : Urls]

InitServe == InitWith(ServeConfigs)

NextServe ==
    \/ RegisterAllToolsStep
    \/ StartServerAfterCatalog
    \/ \E slot \in Slots : InvokeTool(slot)
    \/ \E slot \in Slots : BackendReplies(slot)
    \/ \E slot \in Slots : Deliver(slot)

SpecServe == InitServe /\ [][NextServe]_vars

(***************************************************************************)
(* Claims about the registry, checked under Spec.                          *)
(***************************************************************************)
Registered(i) == serverCalls[i].handler
InList(list, x) == \E j \in DOMAIN list : list[j] = x
IsDestructive(options) ==
    options.tags # None /\ InList(options.tags[1], "destructive")

\* C1: under a read-only config, whatever registerTool calls have been made,
\* no tool the server holds has access tier full.
C1_ReadOnlyConfigRegistersNoFullTool ==
    config.accessTier = "read-only" =>
        \A i \in DOMAIN serverCalls : Registered(i).accessTier # "full"

\* A full-tier descriptor was offered under a read-only config, after a
\* read-only one had been registered.
C1_Witness ==
    /\ config.accessTier = "read-only"
    /\ lastOffer # None
    /\ lastOffer[1].options.accessTier = "full"
    /\ Len(serverCalls) = 1

\* C2: with a non-null allowlist, the category of every tool the server
\* holds is an element of the allowlist.
C2_RegisteredCategoryInAllowlist ==
    config.categories # None =>
        \A i \in DOMAIN serverCalls :
            InList(config.categories[1], Registered(i).category)

\* A descriptor outside a non-empty allowlist was offered after one inside
\* it had been registered.
C2_Witness ==
    /\ config.categories # None
    /\ lastOffer # None
    /\ ~InList(config.categories[1], lastOffer[1].options.category)
    /\ Len(serverCalls) = 1

TierPass(configTier, toolTier) == ~(configTier = "read-only" /\ toolTier = "full")
CategoryPass(allowlist, category) ==
    allowlist = None \/ InList(allowlist[1], category)

\* C3: each registerTool call returns tierPass AND categoryPass, where
\* tierPass reads only the two tiers and categoryPass only the allowlist and
\* the category; it appends one registration for the descriptor exactly when
\* it returns true; and under every other tier and allowlist the decision for
\* the same descriptor is again the conjunction of the two passes, so the
\* allowlist never changes the tier check nor the tier the category check.
C3_DecisionIsTierPassAndCategoryPass ==
    [][ nOffered' # nOffered =>
        LET offer == lastOffer'[1]
            o == offer.options
            visible == /\ TierPass(config.accessTier, o.accessTier)
                       /\ CategoryPass(config.categories, o.category)
        IN  /\ offer.returned = visible
            /\ IF visible
               THEN /\ Len(serverCalls') = Len(serverCalls) + 1
                    /\ SubSeq(serverCalls', 1, Len(serverCalls)) = serverCalls
                    /\ serverCalls'[Len(serverCalls')].handler = o
                    /\ serverCalls'[Len(serverCalls')].name = o.name
               ELSE serverCalls' = serverCalls
            /\ \A t \in AccessTier : \A al \in AllowlistChoices :
                 LET other == [config EXCEPT !.accessTier = t, !.categories = al]
                 IN  /\ registerTool(other, o).returned
                            = (TierPass(t, o.accessTier) /\ CategoryPass(al, o.category))
                     /\ tierGateBlocks(other, o) = ~TierPass(t, o.accessTier)
                     /\ categoryFilterBlocks(other, o) = ~CategoryPass(al, o.category)
      ]_vars

\* Under a read-only config with an allowlist, a read-only descriptor passed
\* the tier check and was suppressed by the category check, after another
\* descriptor had passed both.
C3_Witness ==
    /\ config.accessTier = "read-only"
    /\ config.categories # None
    /\ nOffered = 2
    /\ Len(serverCalls) = 1
    /\ lastOffer[1].options.accessTier = "read-only"
    /\ ~lastOffer[1].returned

\* C4: a registerTool call that returns false makes no call on the server,
\* so the server's registrations (and with them the handlers it holds) are
\* unchanged, nothing is invoked and nothing is logged.
C4_SuppressedCallTouchesNothing ==
    [][ (nOffered' # nOffered /\ ~lastOffer'[1].returned) =>
            /\ serverCalls' = serverCalls
            /\ lastResult' = lastResult
            /\ logs' = logs
      ]_vars

\* A call returned false while the server already held a registration.
C4_Witness ==
    /\ lastOffer # None
    /\ ~lastOffer[1].returned
    /\ Len(serverCalls) = 1
    /\ nOffered = 2

\* C9 as stated: the hints passed to the server are those derived from the
\* access tier and the destructive tag, whatever else the descriptor holds.
C9_HintsAlwaysDerived ==
    \A i \in DOMAIN serverCalls :
        /\ serverCalls[i].annotations.readOnlyHint
               = Some(Registered(i).accessTier = "read-only")
        /\ serverCalls[i].annotations.destructiveHint
               = Some(IsDestructive(Registered(i)))

\* C9 amended: each hint passed to the server is the derived one, unless the
\* descriptor's explicit annotations object sets that hint, and then it is
\* the explicit value.
C9_HintsDerivedUnlessExplicit ==
    \A i \in DOMAIN serverCalls :
        LET o == Registered(i)
            explicit == IF o.annotations = None THEN NoHints ELSE o.annotations[1]
            passed == serverCalls[i].annotations
        IN  /\ passed.readOnlyHint =
                  IF explicit.readOnlyHint # None THEN explicit.readOnlyHint
                  ELSE Some(o.accessTier = "read-only")
            /\ passed.destructiveHint =
                  IF explicit.destructiveHint # None THEN explicit.destructiveHint
                  ELSE Some(IsDestructive(o))

\* A registered full-tier, untagged descriptor whose explicit annotations
\* set both hints to true, next to one without explicit hints.
C9_Witness ==
    /\ Len(serverCalls) = 2
    /\ Registered(1).accessTier = "full"
    /\ Registered(1).tags = None
    /\ Registered(1).annotations # None
    /\ Registered(1).annotations[1].readOnlyHint = Some(TRUE)
    /\ serverCalls[1].annotations.readOnlyHint = Some(TRUE)
    /\ Registered(2).annotations = None
    /\ Registered(2).tags # None
    /\ serverCalls[2].annotations.destructiveHint = Some(TRUE)

\* C10: a descriptor that registerTool registers under tier read-only is
\* also registered under tier full with the same allowlist.
C10_TierMonotone ==
    lastOffer # None =>
        LET o == lastOffer[1].options
            underReadOnly == registerTool([config EXCEPT !.accessTier = "read-only"], o)
            underFull == registerTool([config EXCEPT !.accessTier = "full"], o)
        IN  /\ underReadOnly.returned => underFull.returned
            /\ underReadOnly.calls # <<>> => underFull.calls = underReadOnly.calls

\* A descriptor was registered under a read-only config with an allowlist.
C10_Witness ==
    /\ config.accessTier = "read-only"
    /\ config.categories # None
    /\ lastOffer # None
    /\ lastOffer[1].returned
    /\ Len(serverCalls) = 1
    /\ Registered(1) = lastOffer[1].options

(***************************************************************************)
(* Claims about the registered handler and the redactor, checked under     *)
(* SpecShim.                                                               *)
(***************************************************************************)
Invocation == lastResult[1]
\* pat occurs in s as a substring.
contains(s, pat) == \E i \in 1..(Len(s) + 1) : startsWithAt(s, i, pat)
HandlerThrew == lastResult # None /\ Invocation.outcome.kind = "throw"
HandlerResolved == lastResult # None /\ Invocation.outcome.kind = "resolve"

\* The three failure shapes as their types declare them: a ResponseError
\* carries a response, and every message is a string (or, for the cause of a
\* FetchError, absent).
WellTyped(error) ==
    \/ error.kind = "ResponseError" /\ error.response # None
    \/ /\ error.kind = "FetchError"
       /\ \/ error.cause = None
          \/ error.cause[1].message.type \in {"string", "undefined"}
    \/ error.kind = "Error" /\ error.message.type = "string"

IsErrorResult(result) ==
    /\ ~result.rejected
    /\ Len(result.content) = 1
    /\ result.content[1].type = "text"
    /\ Len(result.content[1].text) >= Len(ErrorPrefix)
    /\ SubSeq(result.content[1].text, 1, Len(ErrorPrefix)) = ErrorPrefix
    /\ result.isError = Some(TRUE)

\* C5: when the descriptor's handler throws a ResponseError, a FetchError or
\* an Error, the registered handler resolves (never rejects) to a result with
\* one text item, "Error: " followed by sanitizeError's rendering, and the
\* error flag set.
C5_FailureShapesBecomeErrorResults ==
    (HandlerThrew /\ WellTyped(Invocation.outcome.error)) =>
        LET result == Invocation.result
            rendered == sanitizeError(Invocation.outcome.error, config)
        IN  /\ IsErrorResult(result)
            /\ ~rendered.threw
            /\ result.content[1].text = ErrorPrefix \o rendered.text

\* A ResponseError with a readable object body became an error result with
\* the status line and a detail.
C5_Witness ==
    /\ HandlerThrew
    /\ Invocation.outcome.error.kind = "ResponseError"
    /\ Invocation.outcome.error.response # None
    /\ Invocation.outcome.error.response[1].body.kind = "object"
    /\ Len(Invocation.outcome.error.response[1].body.entries) = 2
    /\ IsErrorResult(Invocation.result)
    /\ contains(Invocation.result.content[1].text, <<";", " ">>)

\* C6 as stated: whatever the handler throws, the registered handler
\* resolves to an error result; no exception crosses the protocol boundary.
C6_EveryThrowBecomesErrorResult ==
    HandlerThrew => IsErrorResult(Invocation.result)

\* C7 as stated: whatever sanitizeError returns contains neither the
\* configured token nor the configured base URL.
C7_RenderingHoldsNoSecret ==
    HandlerThrew =>
        LET rendered == sanitizeError(Invocation.outcome.error, config)
        IN  ~rendered.threw =>
                /\ ~contains(rendered.text, config.token)
                /\ ~contains(rendered.text, config.url)

\* C8: when the descriptor's handler resolves with s, the registered handler
\* resolves to one text item whose text is s, character for character, with
\* no error flag.
C8_SuccessPassesResultThrough ==
    HandlerResolved =>
        /\ ~Invocation.result.rejected
        /\ Invocation.result.content = << [type |-> "text", text |-> Invocation.outcome.value] >>
        /\ Invocation.result.isError = None

\* The handler resolved with a string that holds the token and a bearer
\* credential, and the result still holds them.
C8_Witness ==
    /\ HandlerResolved
    /\ contains(Invocation.outcome.value, config.token)
    /\ contains(Invocation.outcome.value, BearerWord)
    /\ ~Invocation.result.rejected
    /\ contains(Invocation.result.content[1].text, config.token)

(***************************************************************************)
(* Claims about the catalog, checked under SpecCatalog and SpecOrder.      *)
(***************************************************************************)
NamesOf(server) == { server[i].name : i \in DOMAIN server }
CatalogDone == Len(called) = Len(registerAllTools)

\* The descriptors of the catalog in the order of registerAllTools.
RECURSIVE CatalogFrom(_)
CatalogFrom(k) ==
    IF k > Len(registerAllTools) THEN <<>>
    ELSE registerAllTools[k].tools \o CatalogFrom(k + 1)
CatalogInOrder == CatalogFrom(1)

\* The names registerAllTools registers, from an empty server, under the
\* state's config with its tier replaced by tier.
VisibleUnder(tier) ==
    NamesOf(registerEach(<<>>, [config EXCEPT !.accessTier = tier], CatalogInOrder))

\* C11 as stated: for every allowlist, the tools registerAllTools registers
\* under tier full are a strict superset of those it registers under tier
\* read-only.
C11_FullStrictSupersetOfReadOnly ==
    CatalogDone =>
        /\ VisibleUnder("read-only") \subseteq VisibleUnder("full")
        /\ VisibleUnder("read-only") # VisibleUnder("full")

\* C11 amended: for every allowlist, the tools registered under tier full
\* include those registered under tier read-only, and the server holds
\* exactly the set of its config's tier; the inclusion is strict exactly when
\* the allowlist is null or names a category other than ssf and root, the
\* two categories whose tools are all read-only.
C11_FullSupersetStrictUnlessReadOnlyCategories ==
    CatalogDone =>
        /\ NamesOf(serverCalls) = VisibleUnder(config.accessTier)
        /\ VisibleUnder("read-only") \subseteq VisibleUnder("full")
        /\ (VisibleUnder("read-only") # VisibleUnder("full"))
               <=> \/ config.categories = None
                   \/ \E c \in Categories \ {"ssf", "root"} :
                          InList(config.categories[1], c)

\* registerAllTools has run under tier full with the allowlist ssf, core:
\* the server holds the two ssf tools and full-tier core tools.
C11_Witness ==
    /\ CatalogDone
    /\ config.accessTier = "full"
    /\ config.categories = Some(<<"ssf", "core">>)
    /\ {"authentik_ssf_streams_list", "authentik_ssf_streams_get",
        "authentik_users_delete"} \subseteq NamesOf(serverCalls)
    /\ "authentik_users_delete" \notin VisibleUnder("read-only")

\* C12: whatever the order in which the register*Tools functions are called,
\* a descriptor of a called function is registered exactly when the config
\* admits it; once all are called the server holds the same set of names as
\* after the calls in catalog order; and every step keeps the registrations
\* made before it, unchanged and in place.
C12_RegistrationOrderIndependent ==
    [][ /\ Len(serverCalls') >= Len(serverCalls)
        /\ SubSeq(serverCalls', 1, Len(serverCalls)) = serverCalls
        /\ \A f \in PermutedFunctions : \A i \in DOMAIN f.tools :
               InList(called', f.fn) =>
                   ((f.tools[i].name \in NamesOf(serverCalls'))
                        <=> /\ TierPass(config.accessTier, f.tools[i].accessTier)
                            /\ CategoryPass(config.categories, f.tools[i].category))
        /\ Len(called') = Cardinality(PermutedFunctions) =>
               NamesOf(serverCalls') =
                   { n \in VisibleUnder(config.accessTier) :
                         \E f \in PermutedFunctions : \E i \in DOMAIN f.tools :
                             f.tools[i].name = n }
      ]_vars

\* All four functions were called, registerTaskTools first and
\* registerSsfTools after it, under an allowlist that admits both.
C12_Witness ==
    /\ Len(called) = Cardinality(PermutedFunctions)
    /\ called[1] = "registerTaskTools"
    /\ called[2] = "registerSsfTools"
    /\ config.categories = Some(<<"ssf", "events">>)
    /\ config.accessTier = "read-only"
    /\ Len(serverCalls) = 4
    /\ serverCalls[Len(serverCalls)].name = "authentik_ssf_streams_get"

(***************************************************************************)
(* Claims about the redactor, checked under SpecShim.                      *)
(***************************************************************************)
ThrownError == Invocation.outcome.error
Rendering == sanitizeError(ThrownError, config)

MatchesIn(s, word, minSpaces) ==
    { j \in 1..Len(s) : regexMatchEnd(s, j, word, minSpaces) > 0 }
MatchAt(s, j, word, minSpaces) ==
    SubSeq(s, j, regexMatchEnd(s, j, word, minSpaces) - 1)

\* C14: the rendering of a thrown Error is its message with first the token
\* and then the URL replaced by their markers and then the two patterns
\* replaced; in the result every match of the bearer pattern is
\* "Bearer [REDACTED]" and every match of the authorization pattern is
\* "Authorization: [REDACTED]", in whatever case the message spelled them and
\* whether or not the message held the token.
C14_PatternsRedactedIndependentlyOfToken ==
    (HandlerThrew /\ ThrownError.kind = "Error"
         /\ ThrownError.message.type = "string") =>
        LET m == ThrownError.message.s
            literal == replaceAll(replaceAll(m, config.token, REDACTED),
                                  config.url, AUTHENTIK_URL)
            out == Rendering.text
        IN  /\ ~Rendering.threw
            /\ out = replaceAuthorization(replaceBearer(literal))
            /\ \A j \in MatchesIn(out, BearerWord, 1) :
                   MatchAt(out, j, BearerWord, 1) = BearerRedacted
            /\ \A j \in MatchesIn(out, AuthorizationWord, 0) :
                   MatchAt(out, j, AuthorizationWord, 0) = AuthorizationRedacted
            /\ MatchesIn(literal, BearerWord, 1) # {} =>
                   \/ contains(out, BearerRedacted)
                   \/ contains(out, AuthorizationRedacted)

\* The message held the token followed by a lower-case bearer credential
\* that is not the token; the rendering holds both markers and no "bearer x".
C14_Witness ==
    /\ HandlerThrew
    /\ ThrownError.kind = "Error"
    /\ ThrownError.message.type = "string"
    /\ ThrownError.message.s = config.token \o <<"b", "e", "a", "r", "e", "r", " ", "x">>
    /\ Rendering.text = REDACTED \o BearerRedacted

BadRequest == <<"B", "a", "d", " ", "R", "e", "q", "u", "e", "s", "t">>
DetailOf(entry) ==
    entry.key \o <<":", " ">> \o
    (IF entry.val.type = "array" THEN join(entry.val.items, <<",", " ">>)
     ELSE IF entry.val.type = "object" THEN jsonStringifyObject(entry.val.entries)
     ELSE IF entry.val.type = "null" THEN <<"n", "u", "l", "l">>
     ELSE entry.val.s)
IsStructured(error) ==
    /\ error.kind = "ResponseError"
    /\ error.response # None
    /\ error.response[1].body.kind = "object"
    /\ \A i \in DOMAIN error.response[1].body.entries :
           error.response[1].body.entries[i].val.type # "unrenderable"

\* C15: for a ResponseError whose body is an object, the rendering is the
\* scrubbed "<status> <statusText>: " followed by one "<key>: <value>" per
\* body key in body order, separated by "; ", an array value being its
\* elements joined by ", "; status 400 "Bad Request" with the body
\* {name: ["This field is required."]} renders exactly
\* "400 Bad Request: name: This field is required.".
C15_StructuredBodyRendering ==
    (HandlerThrew /\ IsStructured(ThrownError)) =>
        LET response == ThrownError.response[1]
            entries == response.body.entries
            head == toDecimal(response.status) \o <<" ">> \o response.statusText
                        \o <<":", " ">>
            details == IF Len(entries) = 0 THEN <<>>
                       ELSE IF Len(entries) = 1 THEN DetailOf(entries[1])
                       ELSE DetailOf(entries[1]) \o <<";", " ">> \o DetailOf(entries[2])
        IN  /\ Len(entries) <= 2
            /\ ~Rendering.threw
            /\ Rendering.text = sanitizeMessage(head \o details, config)
            /\ (/\ response.status = 400
                /\ response.statusText = BadRequest
                /\ Len(entries) = 1
                /\ entries[1].key = <<"n", "a", "m", "e">>
                /\ entries[1].val.type = "array"
                /\ entries[1].val.items = <<<<"T", "h", "i", "s", " ", "f", "i", "e", "l", "d", " ", "i", "s", " ", "r", "e", "q", "u", "i", "r", "e", "d", ".">>>>)
                   => Rendering.text = <<"4", "0", "0", " ", "B", "a", "d", " ", "R", "e", "q", "u", "e", "s", "t", ":", " ", "n", "a", "m", "e", ":", " ", "T", "h", "i", "s", " ", "f", "i", "e", "l", "d", " ", "i", "s", " ", "r", "e", "q", "u", "i", "r", "e", "d", ".">>

\* A 400 with a body of two keys, the first an array of two elements, was
\* rendered with ", " between the elements and "; " between the details.
C15_Witness ==
    /\ HandlerThrew
    /\ IsStructured(ThrownError)
    /\ Len(ThrownError.response[1].body.entries) = 2
    /\ ThrownError.response[1].body.entries[1].val.type = "array"
    /\ Len(ThrownError.response[1].body.entries[1].val.items) = 2
    /\ ThrownError.response[1].body.entries[2].val.s = <<"x">>
    /\ Rendering.text = <<"4", "0", "0", " ", "B", "a", "d", " ", "R", "e", "q", "u", "e", "s", "t", ":", " ", "n", "a", "m", "e", ":", " ", "[", "R", "E", "D", "A", "C", "T", "E", "D", "]", ",", " ", "x", ";", " ", "d", "e", "t", "a", "i", "l", ":", " ", "x">>

C17_FetchErrorRendersCauseMessage ==
    (HandlerThrew /\ ThrownError.kind = "FetchError" /\ WellTyped(ThrownError)) =>
        /\ ~Rendering.threw
        /\ IF ThrownError.cause # None /\ ThrownError.cause[1].message.type = "string"
           THEN Rendering.text = sanitizeMessage(ThrownError.cause[1].message.s, config)
           ELSE Rendering.text = <<"U", "n", "k", "n", "o", "w", "n", " ", "f", "e", "t", "c", "h", " ", "e", "r", "r", "o", "r">>
        /\ \A e \in FetchErrors(config) :
               e.cause = ThrownError.cause => sanitizeError(e, config) = Rendering

\* A FetchError whose own message holds the token and the URL, and which has
\* no cause, was rendered as "Unknown fetch error".
C17_Witness ==
    /\ HandlerThrew
    /\ ThrownError.kind = "FetchError"
    /\ ThrownError.cause = None
    /\ contains(ThrownError.message, config.token)
    /\ Invocation.result.content[1].text = ErrorPrefix \o <<"U", "n", "k", "n", "o", "w", "n", " ", "f", "e", "t", "c", "h", " ", "e", "r", "r", "o", "r">>

\* C18: for a thrown value that is no Error (a string, a number, undefined,
\* a plain object) the rendering is "An unknown error occurred", the same for
\* every such value.
C18_NonErrorRendersFixedString ==
    (HandlerThrew /\ ThrownError.kind = "NonError") =>
        /\ Rendering = Returned(<<"A", "n", " ", "u", "n", "k", "n", "o", "w", "n", " ", "e", "r", "r", "o", "r", " ", "o", "c", "c", "u", "r", "r", "e", "d">>)
        /\ \A e \in NonErrors(config) : sanitizeError(e, config) = Rendering
        /\ Invocation.result.content[1].text = ErrorPrefix \o <<"A", "n", " ", "u", "n", "k", "n", "o", "w", "n", " ", "e", "r", "r", "o", "r", " ", "o", "c", "c", "u", "r", "r", "e", "d">>

\* A plain object holding the token was thrown and the result is the fixed
\* string.
C18_Witness ==
    /\ HandlerThrew
    /\ ThrownError.kind = "NonError"
    /\ ThrownError.value.type = "object"
    /\ ThrownError.value.s = config.token
    /\ IsErrorResult(Invocation.result)
    /\ ~contains(Invocation.result.content[1].text, config.token)

(***************************************************************************)
(* Claims about the dispatch tables, checked under SpecDispatch.           *)
(***************************************************************************)
Dispatch == lastDispatch[1]
TableOf(family) == CHOOSE t \in DispatchTables : t.tool = family
Declared(t) == { t.types[i] : i \in DOMAIN t.types }
NonEmptyValues(table) == \A d \in DOMAIN table : table[d] # ""

\* C19: in each of the five tables the three maps have the same keys, the
\* declared discriminators, and no empty value; and a by-type tool called
\* with a declared discriminator makes exactly one call on its family's
\* facet, to the method named by the family's prefix, the discriminator's
\* fragment and the operation's suffix, with the discriminator's create or
\* update body key for those two operations and no body key for the others.
C19_DispatchTablesComplete ==
    /\ Cardinality(DispatchTables) = Cardinality({ t.tool : t \in DispatchTables })
    /\ { t.tool : t \in DispatchTables }
           = {"stages", "providers", "policies", "sources", "property_mappings"}
    /\ \A t \in DispatchTables :
           /\ DOMAIN t.fragment = Declared(t)
           /\ DOMAIN t.requestKey = Declared(t)
           /\ DOMAIN t.patchedKey = Declared(t)
           /\ Cardinality(Declared(t)) = Len(t.types)
           /\ NonEmptyValues(t.fragment)
           /\ NonEmptyValues(t.requestKey)
           /\ NonEmptyValues(t.patchedKey)
    /\ (lastDispatch # None /\ Dispatch.type \in Declared(TableOf(Dispatch.family))) =>
           LET t == TableOf(Dispatch.family)
               outcome == Dispatch.outcome
           IN  /\ outcome.threw = None
               /\ Len(outcome.calls) = 1
               /\ outcome.calls[1].api = t.api
               /\ outcome.calls[1].method # ""
               /\ outcome.calls[1].method =
                      t.prefix \o t.fragment[Dispatch.type] \o OperationSuffix[Dispatch.kind]
               /\ outcome.calls[1].bodyKey =
                      IF Dispatch.kind = "create" THEN Some(t.requestKey[Dispatch.type])
                      ELSE IF Dispatch.kind = "update" THEN Some(t.patchedKey[Dispatch.type])
                      ELSE None
               /\ (Dispatch.family = "providers" /\ Dispatch.type = "oauth2"
                       /\ Dispatch.kind = "create") =>
                      /\ outcome.calls[1].method = "providersOauth2Create"
                      /\ outcome.calls[1].bodyKey = Some("oAuth2ProviderRequest")

\* authentik_providers_by_type_update was called with the discriminator rac
\* and called providersRacPartialUpdate with the patched body key.
C19_Witness ==
    /\ lastDispatch # None
    /\ Dispatch.tool = "authentik_providers_by_type_update"
    /\ Dispatch.type = "rac"
    /\ Dispatch.outcome.calls =
           << [api |-> "providersApi", method |-> "providersRacPartialUpdate",
               bodyKey |-> Some("patchedRACProviderRequest")] >>

\* C20 as stated: a by-type tool called with a discriminator that is not in
\* its family's table makes no call on the facet and fails with an error
\* that holds the offending value and every valid discriminator of the
\* family.
C20_UnknownDiscriminatorNamedAndEnumerated ==
    (lastDispatch # None /\ Dispatch.type \notin Declared(TableOf(Dispatch.family))) =>
        LET t == TableOf(Dispatch.family)
            outcome == Dispatch.outcome
        IN  /\ outcome.calls = <<>>
            /\ outcome.threw # None
            /\ InList(outcome.threw[1].parts, Dispatch.type)
            /\ \/ InList(outcome.threw[1].parts, join(t.types, ", "))
               \/ \A d \in Declared(t) : InList(outcome.threw[1].parts, d)

(***************************************************************************)
(* Claims about the size and the contents of the catalog, checked under    *)
(* SpecCatalog.                                                            *)
(***************************************************************************)
\* C28: with no category allowlist, once registerAllTools has run the server
\* holds exactly 245 tools under tier full and exactly 121 under tier
\* read-only, and registerTool was called 245 times.
C28_ToolCountsPerTier ==
    (CatalogDone /\ config.categories = None) =>
        /\ nOffered = 245
        /\ Len(serverCalls) = (IF config.accessTier = "full" THEN 245 ELSE 121)

\* registerAllTools has run under tier read-only without an allowlist: the
\* server holds 121 of the 245 descriptors offered.
C28_Witness ==
    /\ CatalogDone
    /\ config.categories = None
    /\ config.accessTier = "read-only"
    /\ nOffered = 245
    /\ Len(serverCalls) = 121

\* C29: at every point of registerAllTools, under every config, the names
\* passed to the server's registration call are pairwise different, and so
\* are the names of all descriptors of the catalog.
C29_ToolNamesUnique ==
    /\ Cardinality(NamesOf(serverCalls)) = Len(serverCalls)
    /\ Cardinality(NamesOf(CatalogInOrder)) = Len(CatalogInOrder)

\* registerAllTools has run under tier full without an allowlist: every
\* descriptor of the catalog was passed to the server, the last one last.
C29_Witness ==
    /\ CatalogDone
    /\ config.categories = None
    /\ config.accessTier = "full"
    /\ Len(serverCalls) = Len(CatalogInOrder)
    /\ serverCalls[Len(serverCalls)].name = "authentik_tenants_domains_delete"

\* C30: under tier read-only, for every allowlist, every tool the server
\* holds carries readOnlyHint true and destructiveHint false; no descriptor
\* of the catalog tagged destructive has access tier read-only.
C30_ReadOnlyTierHoldsNoDestructiveTool ==
    /\ config.accessTier = "read-only" =>
           \A i \in DOMAIN serverCalls :
               /\ serverCalls[i].annotations.readOnlyHint = Some(TRUE)
               /\ serverCalls[i].annotations.destructiveHint = Some(FALSE)
    /\ \A t \in Catalog : IsDestructive(t) => t.accessTier = "full"

\* registerAllTools has run under tier read-only with the allowlist managed:
\* of the seven blueprint tools, two of them destructive, the three read-only
\* ones are registered.
C30_Witness ==
    /\ CatalogDone
    /\ config.accessTier = "read-only"
    /\ config.categories = Some(<<"managed">>)
    /\ \E t \in Catalog : t.category = "managed" /\ IsDestructive(t)
    /\ NamesOf(serverCalls) = {"authentik_blueprints_list", "authentik_blueprints_get",
                               "authentik_blueprints_available"}

(***************************************************************************)
(* Claims about the by-type handlers, checked under SpecDispatch.          *)
(***************************************************************************)

\* The handler threw its "Invalid ..." error.
InvalidDiscriminatorThrown ==
    /\ lastDispatch # None
    /\ Dispatch.outcome.threw # None
    /\ Dispatch.outcome.threw[1].kind = "Error"
OriginalMessage == messageText(Dispatch.outcome.threw[1].parts)
ResultText == Dispatch.result[1].content[1].text
HoldsNothingToRedact(message) ==
    /\ ~contains(message, config.token)
    /\ ~contains(message, config.url)
    /\ MatchesIn(message, BearerWord, 1) = {}
    /\ MatchesIn(message, AuthorizationWord, 0) = {}

ExpectedSuffix(kind) ==
    CASE kind = "list" -> "List"
      [] kind = "get" -> "Retrieve"
      [] kind = "create" -> "Create"
      [] kind = "update" -> "PartialUpdate"
      [] kind = "delete" -> "Destroy"
ExpectedCall(t, kind, d) ==
    [api |-> t.api,
     method |-> t.prefix \o t.fragment[d] \o ExpectedSuffix(kind),
     bodyKey |-> CASE kind = "create" -> Some(t.requestKey[d])
                   [] kind = "update" -> Some(t.patchedKey[d])
                   [] OTHER -> None]

C22_ValidDiscriminatorMakesOneCall ==
    /\ OperationKinds = {"list", "get", "create", "update", "delete"}
    /\ \A t \in DispatchTables : \A kind \in OperationKinds : \A d \in Declared(t) :
           invokeByType(t, kind, d) = Calls(<<ExpectedCall(t, kind, d)>>)
    /\ (lastDispatch # None /\ Dispatch.type \in Declared(TableOf(Dispatch.family))) =>
           /\ Dispatch.tool =
                  "authentik_" \o Dispatch.family \o "_by_type_" \o Dispatch.kind
           /\ Dispatch.outcome.threw = None
           /\ Dispatch.outcome.calls =
                  <<ExpectedCall(TableOf(Dispatch.family), Dispatch.kind, Dispatch.type)>>
           /\ Dispatch.outcome.calls[1].api \in
                  {"stagesApi", "providersApi", "policiesApi", "sourcesApi",
                   "propertymappingsApi"}
    /\ invokeByType(TableOf("providers"), "create", "oauth2") =
           Calls(<< [api |-> "providersApi", method |-> "providersOauth2Create",
                     bodyKey |-> Some("oAuth2ProviderRequest")] >>)

\* authentik_policies_by_type_update was called with the discriminator
\* password and called policiesPasswordPartialUpdate with the patched key
\* of the password policy.
C22_Witness ==
    /\ lastDispatch # None
    /\ Dispatch.tool = "authentik_policies_by_type_update"
    /\ Dispatch.type = "password"
    /\ Len(Dispatch.outcome.calls) = 1
    /\ Dispatch.outcome.calls[1].api = "policiesApi"
    /\ Dispatch.outcome.calls[1].method = "policiesPasswordPartialUpdate"
    /\ Dispatch.outcome.calls[1].bodyKey = Some(POLICY_TYPE_PATCHED_KEY["password"])
    /\ POLICY_TYPE_PATCHED_KEY["password"] # POLICY_TYPE_REQUEST_KEY["password"]

(***************************************************************************)
(* Claims about startup, checked under SpecStartup and SpecDispatch.       *)
(***************************************************************************)
Env == startup.env[1]
ConfigLoaded ==
    pc \in {"validating", "registering", "serving"} \/ startup.connection # None
TierValue == Env.AUTHENTIK_ACCESS_TIER
RequiredPresent ==
    /\ Env.AUTHENTIK_URL \notin {None, Some(<<>>)}
    /\ Env.AUTHENTIK_TOKEN \notin {None, Some(<<>>)}

\* C23 as stated: the loaded config has tier read-only only for the value
\* "read-only" and tier full only for the value "full" or an unset variable;
\* with every other value loadConfig throws an error that names the value,
\* and the process ends without a config.
C23_TierOnlyFromExactValueOrUnset ==
    /\ ConfigLoaded =>
           /\ config.accessTier = "read-only" => TierValue = Some("read-only")
           /\ config.accessTier = "full" => TierValue \in {None, Some("full")}
    /\ (pc # "loading" /\ TierValue \notin {None, Some("read-only"), Some("full")}) =>
           /\ ~ConfigLoaded
           /\ pc = "exited"
           /\ startup.exitCode = Some(1)

\* C23 amended: the loaded config has tier read-only only for the value
\* "read-only" and tier full only for the value "full", the empty string or
\* an unset variable; with every other value loadConfig throws, when URL and
\* token are present an error that names the value and the two tiers, and
\* the process ends with exit code 1 without a config.
C23_TierOnlyFromExactValueEmptyOrUnset ==
    /\ ConfigLoaded =>
           /\ config.accessTier \in AccessTier
           /\ config.accessTier = "read-only" <=> TierValue = Some("read-only")
           /\ config.accessTier = "full" <=> TierValue \in {None, Some(""), Some("full")}
    /\ (pc # "loading"
            /\ TierValue \notin {None, Some(""), Some("read-only"), Some("full")}) =>
           /\ ~ConfigLoaded
           /\ pc = "exited"
           /\ startup.exitCode = Some(1)
           /\ logs = 1
           /\ RequiredPresent =>
                  /\ loadConfig(Env).threw # None
                  /\ InList(loadConfig(Env).threw[1], TierValue[1])
                  /\ InList(loadConfig(Env).threw[1],
                            "\". Must be \"read-only\" or \"full\".")

\* The process has ended at loadConfig: URL and token were there and the
\* tier variable held READ-ONLY in capitals.
C23_Witness ==
    /\ pc = "exited"
    /\ RequiredPresent
    /\ TierValue = Some("READ-ONLY")
    /\ Env.MCP_PORT = None
    /\ startup.exitCode = Some(1)
    /\ startup.connection = None

\* C24: when loadConfig throws (URL or token missing or empty, a value that
\* names no tier, a port out of range) or the connection is not validated,
\* the process has ended with exit code 1, registerTool was never called,
\* the server holds no tool and was not started; the ended process takes no
\* further step, and it ends for no other reason.
StartupFailed ==
    \/ pc # "loading" /\ loadConfig(Env).threw # None
    \/ startup.connection = Some("failed")

C24_StartupFailureRegistersNothing ==
    /\ [](StartupFailed =>
              /\ pc = "exited"
              /\ startup.exitCode = Some(1)
              /\ nOffered = 0
              /\ serverCalls = <<>>
              /\ called = <<>>)
    /\ []((pc # "loading"
               /\ \/ Env.AUTHENTIK_URL = None
                  \/ Env.AUTHENTIK_TOKEN = None
                  \/ TierValue \in {Some("READ-ONLY"), Some("readonly"), Some(" full")})
              => pc = "exited")
    /\ [](pc = "exited" <=> StartupFailed)
    /\ [](startup.exitCode # None <=> pc = "exited")
    /\ [][pc # "exited"]_vars

\* The process has ended because the connection could not be validated,
\* after a config was loaded and the admin facet built.
C24_Witness ==
    /\ pc = "exited"
    /\ startup.connection = Some("failed")
    /\ loadConfig(Env).threw = None
    /\ facets["adminApi"].built = 1
    /\ config.accessTier = "read-only"
    /\ serverCalls = <<>>

\* C25: the server is started only after registerAllTools has called every
\* register function; a handler is invoked only on the started server; every
\* step that changes the server's registrations is a step of registerAllTools
\* before the start; and once the server is started it stays started and its
\* registrations never change.
C25_RegistrationEndsBeforeServing ==
    /\ [](pc = "serving" => CatalogDone)
    /\ [](lastDispatch # None => (pc = "serving" /\ CatalogDone))
    /\ [][ /\ pc = "serving" => (pc' = "serving" /\ serverCalls' = serverCalls
                                    /\ called' = called)
           /\ serverCalls' # serverCalls =>
                  (pc = "registering" /\ pc' = "registering"
                       /\ Len(called') = Len(called) + 1)
           /\ pc' = "serving" /\ pc # "serving" =>
                  (Len(called) = Len(registerAllTools) /\ serverCalls' = serverCalls)
         ]_vars

\* On the started server, holding all 245 tools, a by-type tool is being
\* invoked.
C25_Witness ==
    /\ pc = "serving"
    /\ CatalogDone
    /\ Len(serverCalls) = 245
    /\ lastDispatch # None
    /\ \E i \in DOMAIN serverCalls : serverCalls[i].name = Dispatch.tool

(***************************************************************************)
(* Claims about invocations in flight, checked under SpecServe.            *)
(***************************************************************************)
InFlight(slot) == inflight[slot][1]
Busy(slot) == inflight[slot] # None

\* C26: every facet is built at most once, and built exactly when it was
\* read; every invocation that reads a facet reads the facet of its tool and
\* gets the first instance built, however the invocations overlap; and a
\* step changes a facet only by building it, unbuilt before, for an
\* invocation that begins in that step, leaving every other facet as it was.
C26_FacetsBuiltAtMostOnce ==
    /\ [](\A f \in FacetNames :
              /\ facets[f].built <= 1
              /\ facets[f].built = 1 <=> facets[f].read)
    /\ [](\A slot \in Slots :
              (Busy(slot) /\ InFlight(slot).facet # None) =>
                  /\ InFlight(slot).facet[1].name = FacetOf[InFlight(slot).tool]
                  /\ InFlight(slot).facet[1].instance = 1
                  /\ facets[InFlight(slot).facet[1].name].built = 1)
    /\ [][ \A f \in FacetNames :
               facets'[f] # facets[f] =>
                   /\ facets[f] = [built |-> 0, read |-> FALSE]
                   /\ facets'[f] = [built |-> 1, read |-> TRUE]
                   /\ \A g \in FacetNames \ {f} : facets'[g] = facets[g]
                   /\ \E slot \in Slots :
                          /\ ~Busy(slot)
                          /\ inflight'[slot] # None
                          /\ inflight'[slot][1].facet = Some([name |-> f, instance |-> 1])
         ]_vars

\* Two invocations overlap, of the users list and of the groups list tool:
\* both hold the one core facet; the sources facet was built for an earlier
\* invocation and the ssf facet, never read, was not built.
C26_Witness ==
    /\ Busy(1) /\ Busy(2)
    /\ InFlight(1).tool = "authentik_users_list"
    /\ InFlight(2).tool = "authentik_groups_list"
    /\ InFlight(1).facet = Some([name |-> "coreApi", instance |-> 1])
    /\ InFlight(2).facet = InFlight(1).facet
    /\ facets["coreApi"].built = 1
    /\ facets["sourcesApi"].built = 1
    /\ facets["ssfApi"] = [built |-> 0, read |-> FALSE]

\* C27: every invocation in flight has run its handler once and made at
\* most one backend call; when the call has failed the invocation is settled
\* with an error result after that one call, when it has succeeded with the
\* handler's text; a step that settles an invocation settles it at once,
\* with no further run or call, and changes nothing else; and no step
\* changes two invocations.
C27_NoRetry ==
    /\ [](\A slot \in Slots :
              Busy(slot) =>
                  /\ InFlight(slot).runs = 1
                  /\ InFlight(slot).calls <= 1
                  /\ InFlight(slot).phase = "awaiting" =>
                         (InFlight(slot).calls = 1 /\ InFlight(slot).result = None)
                  /\ (InFlight(slot).phase = "settled" /\ InFlight(slot).reply # None) =>
                         /\ InFlight(slot).calls = 1
                         /\ InFlight(slot).result # None
                         /\ IF InFlight(slot).reply[1].ok
                            THEN InFlight(slot).result[1] =
                                     Resolved(<<TextItem(InFlight(slot).reply[1].text)>>, None)
                            ELSE /\ IsErrorResult(InFlight(slot).result[1])
                                 /\ ~contains(InFlight(slot).result[1].content[1].text,
                                              config.token)
                  /\ (InFlight(slot).phase = "settled" /\ InFlight(slot).reply = None) =>
                         /\ InFlight(slot).calls = 0
                         /\ IsErrorResult(InFlight(slot).result[1]))
    /\ [][ \A slot \in Slots :
               inflight'[slot] # inflight[slot] =>
                   /\ \A other \in Slots \ {slot} : inflight'[other] = inflight[other]
                   /\ serverCalls' = serverCalls
                   /\ (Busy(slot) /\ InFlight(slot).phase = "awaiting") =>
                          /\ inflight'[slot] # None
                          /\ inflight'[slot][1].phase = "settled"
                          /\ inflight'[slot][1].runs = 1
                          /\ inflight'[slot][1].calls = 1
                          /\ inflight'[slot][1].tool = InFlight(slot).tool
                          /\ facets' = facets
         ]_vars

\* The call of one invocation has failed and the invocation is settled with
\* an error result after its one call, while another invocation of the same
\* tool still awaits its own call.
C27_Witness ==
    /\ Busy(1) /\ Busy(2)
    /\ InFlight(1).tool = "authentik_users_list"
    /\ InFlight(1).phase = "settled"
    /\ InFlight(1).reply # None
    /\ ~InFlight(1).reply[1].ok
    /\ InFlight(1).runs = 1
    /\ InFlight(1).calls = 1
    /\ IsErrorResult(InFlight(1).result[1])
    /\ InFlight(2).tool = "authentik_users_list"
    /\ InFlight(2).phase = "awaiting"

====
